---- MODULE Spec2Model ----
(***************************************************************************)
(* A model of the Ares video pipeline's state machines:                    *)
(*   - capture::FrameBuffer    (src/src/capture/frame_buffer.cpp)          *)
(*   - sync::FrameScheduler    (src/src/sync/frame_scheduler.cpp)          *)
(*   - osd::MenuSystem         (src/src/osd/menu_system.cpp)               *)
(*   - processing::BlackBarDetector                                        *)
(*                       (src/src/processing/black_bar_detector.cpp)       *)
(*   - display::FrameRateMatcher (src/src/display/frame_rate_matcher.cpp)  *)
(*   - capture::DeckLinkCapture (src/src/capture/decklink_capture.cpp)     *)
(*   - display::DRMDisplay::pageFlip (src/src/display/drm_display.cpp)     *)
(*   - input::ReceiverControl (src/src/input/receiver_control.cpp) and the *)
(*     volume overlay of main (src/src/main.cpp)                           *)
(*   - display::EDIDParser (src/src/display/edid_parser.cpp)               *)
(* Each component has its own specification (Spec, SpecSched, SpecMenu,    *)
(* SpecCrop, SpecMatch, SpecCapture, SpecFlip, SpecReceiver, SpecEISCP,    *)
(* SpecEDID);                                                              *)
(* the variables of the other components stay at their initial values.     *)
(***************************************************************************)
EXTENDS Integers, Sequences, FiniteSets, TLC

(***************************************************************************)
(* Bounds of the exploration.                                              *)
(***************************************************************************)
\* largest capacity a FrameBuffer is constructed with
MaxCapacity == 2
\* number of push calls that insert a frame
MaxPush == 2
\* number of pop calls that repeat the retained frame
MaxRepeat == 1
\* presentation timestamps range over 1..MaxPTS
MaxPTS == 2
\* tolerances of getFrameByPTS range over 0..MaxTol
MaxTol == 1
\* number of frames passed to scheduleFrame after the first
MaxFrames == 4
\* a menu has at most MaxTabs tabs
MaxTabs == 2
\* a tab has at most MaxItems items
MaxItems == 2
\* the inactivity timeouts configured are 0 (never) and MaxTimeout ms
MaxTimeout == 2
\* at most MaxOff items of a menu are hidden or disabled
MaxOff == 1
\* m_max_history of the BlackBarDetector explored (30 in the source)
MaxHistory == 5
\* number of frames passed to analyzeFrame with detection enabled
MaxAnalyzed == 5
\* bootstrap delay of the configurations explored, in frames
MaxDelay == 1
\* a display offers at most MaxModes modes
MaxModes == 3
\* number of FrameRateMatcher::update calls that query the capture
MaxUpdates == 2
\* number of frames the capture source delivers while capture runs
MaxCaptured == 6
\* FRAME_RATE_SAMPLES of the DeckLinkCapture explored (30 in the source)
FrameRateSamples == 3
\* number of pageFlip calls made
MaxFlips == 4
\* the clock advances MaxTicks times
MaxTicks == 15
\* commands passed to buildEISCPPacket have 2..MaxCommand characters
MaxCommand == 4
\* parameters passed to buildEISCPPacket have 0..MaxParameter characters
MaxParameter == 2
\* an EDID image has at most MaxExtensions extension blocks
MaxExtensions == 2
\* the sliders of the menus of SpecMenuInput range over 0..MaxSlider steps
MaxSlider == 3
MaxProcessed == 2
MaxLoops == 2
MaxClock == 4
MaxCalls == 3
\* the size of an EDID image that was cut off inside its first extension block
CutSize == 200

VARIABLES
    \* ---- capture::FrameBuffer ----
    m_capacity,        \* size_t m_capacity
    m_queue,           \* std::queue<BufferedFrame> m_queue (head is element 1)
    m_has_last_frame,  \* bool m_has_last_frame
    m_last_frame,      \* BufferedFrame m_last_frame
    m_stats,           \* Stats m_stats (the counters)
    clock,             \* last value read from std::chrono::steady_clock (each
                       \* push reads a later value than the push before it)
    fbOut,             \* what the last FrameBuffer call returned
    pushedPTS,         \* history: PTS of every frame inserted by push
    poppedPTS,         \* history: PTS of every frame dequeued by pop
    lastPopped,        \* history: the frame the last dequeuing pop handed out
    goneIds,           \* history: ids of frames a call removed from the queue
    \* ---- sync::FrameScheduler ----
    m_initialized,          \* bool m_initialized
    m_display_refresh_rate, \* float m_display_refresh_rate (Hz)
    m_source_frame_rate,    \* float m_source_frame_rate (fps)
    m_algorithm,            \* SchedulingAlgorithm m_algorithm
    m_vrr_enabled,          \* bool m_vrr_enabled
    m_first_frame,          \* bool m_first_frame
    m_frame_number,         \* uint64_t m_frame_number
    m_frame_accumulator,    \* double m_frame_accumulator, in units of 1/AccUnit
    schedStats,             \* Stats m_stats: frames_scheduled, frames_dropped
    schedOut,               \* what the last FrameScheduler call returned
    decisions,              \* history: per frame passed to scheduleFrame since the
                            \* rates were last set, TRUE iff it was presented
    \* ---- osd::MenuSystem ----
    menu_initialized,     \* bool m_initialized
    callback_set,         \* the remote's button callback is handleButton
    m_config,             \* OSDConfig m_config (timeout_ms)
    m_menu,               \* OSDMenuStructure m_menu: the tabs, each a sequence of items
    m_current_tab,        \* int m_current_tab
    m_current_item,       \* int m_current_item
    m_scroll_offset,      \* int m_scroll_offset
    m_visible,            \* bool m_visible
    m_adjusting_value,    \* bool m_adjusting_value
    m_timeout_accumulator,\* float m_timeout_accumulator (ms)
    hung,                 \* a call is spinning in a loop that cannot end
    menuOut,              \* the last MenuSystem call
    idleTime,          \* history: ms of update() calls since the last input (capped)
    \* ---- processing::BlackBarDetector ----
    m_history,            \* std::deque<CropRegion> m_history (oldest first)
    m_current_crop,       \* CropRegion m_current_crop
    m_stable_crop,        \* CropRegion m_stable_crop
    m_bootstrap_crop,     \* CropRegion m_bootstrap_crop
    m_bootstrap_complete, \* bool m_bootstrap_complete
    bbStats,              \* Stats m_stats: frames_analyzed (the counter the
                          \* detector reads back)
    bbOut,                \* the last BlackBarDetector call and the path it took
    symmetricOnly,        \* history: every call so far had symmetric_only set
    \* ---- display::FrameRateMatcher, with the display it drives ----
    matcher_initialized,  \* m_display and m_capture are set
    m_enabled,            \* bool m_enabled
    m_last_detected_fps,  \* double m_last_detected_fps (mHz)
    m_last_was_stable,    \* bool m_last_was_stable
    matcherStats,         \* Stats m_stats: mode_switches, mode_matched
    available_modes,      \* the modes of the display's connector, in order
    m_current_mode,       \* DRMDisplay::m_current_mode
    fmOut,                \* the last FrameRateMatcher call and what it returned
    setModeCalls,         \* history: refresh rates passed to DRMDisplay::setMode
    initialMode,          \* history: the display's mode before the first update
    reports,              \* history: how many updates queried the capture, and
                          \* whether each got a stable 23.976 fps
    \* ---- capture::DeckLinkCapture ----
    cap_initialized,       \* bool m_initialized of the capture
    m_running,             \* bool m_running
    m_frame_queue,         \* std::queue<QueuedFrame> m_frame_queue (frame numbers)
    capStats,              \* Stats m_stats: frames_captured, frames_dropped
    m_frame_intervals,     \* std::vector<double> m_frame_intervals
    m_detected_frame_rate, \* double m_detected_frame_rate (a fraction, Hz)
    m_frame_rate_stable,   \* bool m_frame_rate_stable
    m_last_pts,            \* int64_t m_last_pts
    capOut,                \* the last DeckLinkCapture call and what it returned
    sourcePts,             \* history: pts_ns of the last frame delivered (0: none)
    sourceIntervals,       \* history: the last FrameRateSamples PTS intervals delivered
    \* ---- display::DRMDisplay, page flips ----
    drm_initialized,       \* bool m_initialized of the display
    m_page_flip_pending,   \* bool m_page_flip_pending
    drmStats,              \* Stats m_stats: frames_presented, missed_vblanks
    kernelFlip,            \* the CRTC has a page flip queued for the next vblank
    flipEvents,            \* completion events readable on the DRM file descriptor
    pc,                    \* where each thread is inside pageFlip
    flipResult,            \* what each thread's last pageFlip call returned
    flipCalls,             \* number of pageFlip calls made
    \* ---- input::ReceiverControl volume state and the volume overlays ----
    m_volume_info,         \* VolumeInfo m_volume_info
    now_ms,                   \* std::chrono::steady_clock, in ms
    overlayOut,            \* what the main loop's last iteration drew of the volume
    ovm_visible,           \* VolumeOverlayManager::m_visible
    ovm_current_volume,    \* VolumeOverlayManager::m_current_volume
    ovm_last_change_time,  \* VolumeOverlayManager::m_last_change_time
    ovmOut,                \* what VolumeOverlayManager::update drew last
    changedAt,             \* history: time of the last volume or mute change (-1: none)
    \* ---- input::ReceiverControl, eISCP packets ----
    eiscp_command,         \* the command passed to buildEISCPPacket
    eiscp_parameter,       \* the parameter passed to buildEISCPPacket
    eiscp_packet,          \* the packet built (<<>>: none yet)
    eiscp_message,         \* what parseEISCPPacket made of the packet
    \* ---- display::EDIDParser ----
    edid_data,             \* the bytes passed to parseEDIDData (size is their number)
    edidOut,               \* what the last parseEDIDData call returned and parsed
    pipeline_initialized,   \* ProcessingPipeline::m_initialized
    pipeline_config,        \* ProcessingPipeline::m_config
    m_nls_shader,           \* the NLS shader has been created
    osd_system,             \* the OSD renderer, compositor and menu system have been created
    frames_processed,       \* m_stats.frames_processed
    total_frame_time_ms,    \* m_stats.total_frame_time_ms
    tone_frames_processed,  \* the tone mapper's m_stats.frames_processed
    ppOut,                  \* result and effects of the last call on the pipeline
    g_running,              \* main.cpp's shutdown flag
    main_pc,                \* where main is: in its loop, in the shutdown sequence, done
    frame_count,            \* frames presented by the loop
    receiver_enabled,       \* the receiver was initialized
    capture_running,        \* the capture streams
    capture_queued,         \* frames in the capture's queue
    quiesced,               \* the calls of the shutdown sequence made so far, in order
    mainOut,                \* results of the calls of the last iteration of the loop
    display_open,           \* DRMDisplay::m_initialized, of the display whose mode is followed
    crtc_mode,              \* the mode the kernel has on the CRTC
    m_drm_mode,             \* the mode selected by selectMode or setMode
    m_saved_crtc,           \* the CRTC read by findCrtc for restoration, or NoCrtc
    modeBefore,             \* the mode of the CRTC when initialize was called
    dmOut,                  \* the last call on the display and its result
    m_drm_fd,          \* int m_drm_fd: -1, or the descriptor of the open device
    drm_objects,       \* the libdrm objects obtained and not freed
    raw_ns,                 \* CLOCK_MONOTONIC_RAW, in nanoseconds
    steady_ns,              \* std::chrono::steady_clock, in nanoseconds
    m_now_calls,            \* MasterClock::m_now_calls
    clockOut,               \* the last now() of the thread: its value, its source, the value before
    \* ---- capture::FrameBuffer, called from several threads ----
    m_mutex,           \* std::mutex m_mutex: the thread that holds it, or Free
    m_stats_mutex,     \* std::mutex m_stats_mutex: the thread that holds it, or Free
    fb_thread,         \* per thread: the position inside its call, the call's frame and result
    \* ---- capture::DeckLinkCapture, device callback against the render thread ----
    m_queue_mutex,     \* std::mutex m_queue_mutex: the thread that holds it, or Free
    cap_stats_mutex,   \* std::mutex m_stats_mutex of DeckLinkCapture: its holder, or Free
    cap_pc,            \* per thread: the position inside its call
    \* ---- input::ReceiverControl, connection and monitor thread ----
    rc_connected,          \* std::atomic<bool> m_connected
    m_receiver_info,       \* ReceiverInfo m_receiver_info (ip_address, port, connected)
    m_monitoring_enabled,  \* std::atomic<bool> m_monitoring_enabled
    m_monitor_running,     \* std::atomic<bool> m_monitor_running: m_monitor_thread runs its loop
    monOut                 \* the last call, its argument and its result

fbVars == <<m_capacity, m_queue, m_has_last_frame, m_last_frame, m_stats,
            clock, fbOut, pushedPTS, poppedPTS, lastPopped, goneIds>>

schedVars == <<m_initialized, m_display_refresh_rate, m_source_frame_rate,
               m_algorithm, m_vrr_enabled, m_first_frame, m_frame_number,
               m_frame_accumulator, schedStats, schedOut, decisions>>

menuVars == <<menu_initialized, callback_set, m_config, m_menu, m_current_tab,
              m_current_item, m_scroll_offset, m_visible, m_adjusting_value,
              m_timeout_accumulator, hung, menuOut, idleTime>>

bbVars == <<m_history, m_current_crop, m_stable_crop, m_bootstrap_crop,
            m_bootstrap_complete, bbStats, bbOut, symmetricOnly>>

fmVars == <<matcher_initialized, m_enabled, m_last_detected_fps, m_last_was_stable,
            matcherStats, available_modes, m_current_mode, fmOut, setModeCalls,
            initialMode, reports>>

capVars == <<cap_initialized, m_running, m_frame_queue, capStats, m_frame_intervals, m_detected_frame_rate, m_frame_rate_stable, m_last_pts, capOut, sourcePts, sourceIntervals>>

drmVars == <<drm_initialized, m_page_flip_pending, drmStats, kernelFlip, flipEvents, pc, flipResult, flipCalls>>

rcVars == <<m_volume_info, now_ms, overlayOut, ovm_visible, ovm_current_volume, ovm_last_change_time, ovmOut, changedAt>>

eiscpVars == <<eiscp_command, eiscp_parameter, eiscp_packet, eiscp_message>>

edidVars == <<edid_data, edidOut>>

ppVars == <<pipeline_initialized, pipeline_config, m_nls_shader, osd_system, frames_processed, total_frame_time_ms, tone_frames_processed, ppOut>>

mainVars == <<g_running, main_pc, frame_count, receiver_enabled, capture_running, capture_queued, quiesced, mainOut>>

dmVars == <<display_open, crtc_mode, m_drm_mode, m_saved_crtc, modeBefore, dmOut,
           m_drm_fd, drm_objects>>

clockVars == <<raw_ns, steady_ns, m_now_calls, clockOut>>

ftVars == <<m_mutex, m_stats_mutex, fb_thread>>

ctVars == <<m_queue_mutex, cap_stats_mutex, cap_pc>>

monVars == <<rc_connected, m_receiver_info, m_monitoring_enabled, m_monitor_running, monOut>>

vars == <<fbVars, schedVars, menuVars, bbVars, fmVars, capVars, drmVars, rcVars, eiscpVars, edidVars, ppVars, mainVars, dmVars, clockVars, ftVars, ctVars, monVars>>

\* the variables every FrameBuffer action leaves alone
notFB == <<schedVars, menuVars, bbVars, fmVars, capVars, drmVars, rcVars, eiscpVars, edidVars, ppVars, mainVars, dmVars, clockVars, ftVars, ctVars, monVars>>
\* the variables every FrameScheduler action leaves alone
notSched == <<fbVars, menuVars, bbVars, fmVars, capVars, drmVars, rcVars, eiscpVars, edidVars, ppVars, mainVars, dmVars, clockVars, ftVars, ctVars, monVars>>
\* the variables every MenuSystem action leaves alone
notMenu == <<fbVars, schedVars, bbVars, fmVars, capVars, drmVars, rcVars, eiscpVars, edidVars, ppVars, mainVars, dmVars, clockVars, ftVars, ctVars, monVars>>
\* the variables every BlackBarDetector action leaves alone
notBB == <<fbVars, schedVars, menuVars, fmVars, capVars, drmVars, rcVars, eiscpVars, edidVars, ppVars, mainVars, dmVars, clockVars, ftVars, ctVars, monVars>>
\* the variables every FrameRateMatcher action leaves alone
notFM == <<fbVars, schedVars, menuVars, bbVars, capVars, drmVars, rcVars, eiscpVars, edidVars, ppVars, mainVars, dmVars, clockVars, ftVars, ctVars, monVars>>
\* the variables every DeckLinkCapture action leaves alone
notCap == <<fbVars, schedVars, menuVars, bbVars, fmVars, drmVars, rcVars, eiscpVars, edidVars, ppVars, mainVars, dmVars, clockVars, ftVars, ctVars, monVars>>
\* the variables every DRMDisplay action leaves alone
notDRM == <<fbVars, schedVars, menuVars, bbVars, fmVars, capVars, rcVars, eiscpVars, edidVars, ppVars, mainVars, dmVars, clockVars, ftVars, ctVars, monVars>>
\* the variables every ReceiverControl action leaves alone
notRC == <<fbVars, schedVars, menuVars, bbVars, fmVars, capVars, drmVars, eiscpVars, edidVars, ppVars, mainVars, dmVars, clockVars, ftVars, ctVars, monVars>>
\* the variables every eISCP packet action leaves alone
notEISCP == <<fbVars, schedVars, menuVars, bbVars, fmVars, capVars, drmVars, rcVars, edidVars, ppVars, mainVars, dmVars, clockVars, ftVars, ctVars, monVars>>
\* the variables every EDIDParser action leaves alone
notEDID == <<fbVars, schedVars, menuVars, bbVars, fmVars, capVars, drmVars, rcVars, eiscpVars, ppVars, mainVars, dmVars, clockVars, ftVars, ctVars, monVars>>
\* the variables every action of the pipeline, its detector and its menu leaves alone
notPipeline == <<fbVars, schedVars, fmVars, capVars, drmVars, rcVars, eiscpVars, edidVars, mainVars, dmVars, clockVars, ftVars, ctVars, monVars>>
\* the variables every main action leaves alone
notMain == <<fbVars, schedVars, menuVars, bbVars, fmVars, capVars, drmVars, rcVars, eiscpVars, edidVars, ppVars, dmVars, clockVars, ftVars, ctVars, monVars>>
\* the variables every display mode action leaves alone
notDM == <<fbVars, schedVars, menuVars, bbVars, fmVars, capVars, drmVars, rcVars, eiscpVars, edidVars, ppVars, mainVars, clockVars, ftVars, ctVars, monVars>>
\* the variables every MasterClock action leaves alone
notClock == <<fbVars, schedVars, menuVars, bbVars, fmVars, capVars, drmVars, rcVars, eiscpVars, edidVars, ppVars, mainVars, dmVars, ftVars, ctVars, monVars>>
\* the variables every threaded FrameBuffer action leaves alone
notFT == <<schedVars, menuVars, bbVars, fmVars, capVars, drmVars, rcVars, eiscpVars, edidVars, ppVars, mainVars, dmVars, clockVars, ctVars, monVars>>
\* the variables every threaded DeckLinkCapture action leaves alone
notCT == <<fbVars, schedVars, menuVars, bbVars, fmVars, drmVars, rcVars, eiscpVars, edidVars, ppVars, mainVars, dmVars, clockVars, ftVars, monVars>>
\* the variables every ReceiverControl connection action leaves alone
notMon == <<fbVars, schedVars, menuVars, bbVars, fmVars, capVars, drmVars, rcVars, eiscpVars, edidVars, ppVars, mainVars, dmVars, clockVars, ftVars, ctVars>>

(***************************************************************************)
(* capture::FrameBuffer                                                    *)
(***************************************************************************)
\* nullptr
NULL == 0
\* the address of the buffer the caller of push owns
CallerBuf == 1

\* VideoFrame: data is an address (NULL or a buffer), bytes the buffer's
\* content (0 when there is no buffer), size the byte count.
VideoFrame(p, d, s, b) == [pts |-> p, data |-> d, size |-> s, bytes |-> b]

\* the frames a caller passes to push: with pixel data or without
InputFrames ==
    { VideoFrame(p, CallerBuf, 1, 10 + p) : p \in 1..MaxPTS } \cup
    { VideoFrame(p, NULL, 0, 0) : p \in 1..MaxPTS }

NoFrame == VideoFrame(0, NULL, 0, 0)

NoBuffered == [frame |-> NoFrame, arrival_time |-> 0, target_time |-> 0,
               is_late |-> FALSE, id |-> 0]

InitStats == [frames_pushed |-> 0, frames_popped |-> 0, frames_dropped |-> 0,
              frames_repeated |-> 0, frames_late |-> 0]

\* new uint8_t[size] + memcpy: a copy of f's bytes at the fresh address buf
DeepCopy(f, buf) ==
    IF f.data # NULL /\ f.size > 0
    THEN [f EXCEPT !.data = buf]
    ELSE [f EXCEPT !.data = NULL, !.bytes = 0]

\* the addresses in use: the caller's buffer and every buffer a frame of the
\* queue, the retained frame or a frame handed to the caller points to
LiveBufs ==
    {CallerBuf} \cup { m_queue[i].frame.data : i \in 1..Len(m_queue) }
                \cup {m_last_frame.frame.data, fbOut.frame.data, lastPopped.data}

\* new uint8_t[size]: an address that is not in use (addresses are only ever
\* compared, so the lowest stands for any)
NewBuf == CHOOSE a \in 1..(Cardinality(LiveBufs) + 1) :
              /\ a \notin LiveBufs
              /\ \A b \in 1..(a - 1) : b \in LiveBufs

\* m_queue.push(buffered)
Enqueue(q, b) == Append(q, b)

\* push's "drop oldest frame": m_queue.pop() when the queue is not empty
DropOldest(q) == IF q # <<>> THEN Tail(q) ELSE q

\* a refusal that counts the refused frame as dropped
PushFullCounted ==
    /\ Len(m_queue) >= m_capacity
    /\ fbOut' = [op |-> "push", result |-> "ERROR_OUT_OF_MEMORY",
                 frame |-> NoFrame, repeated |-> FALSE, drop |-> FALSE]
    /\ m_stats' = [m_stats EXCEPT !.frames_dropped = @ + 1]
    /\ UNCHANGED <<m_capacity, m_queue, m_has_last_frame, m_last_frame,
                   clock, pushedPTS, poppedPTS, lastPopped, goneIds>>
    /\ UNCHANGED notFB

\* push, the branch that returns ERROR_OUT_OF_MEMORY: the buffer is full
\* and drop_oldest_on_full is false
PushFull ==
    /\ Len(m_queue) >= m_capacity
    /\ fbOut' = [op |-> "push", result |-> "ERROR_OUT_OF_MEMORY",
                 frame |-> NoFrame, repeated |-> FALSE, drop |-> FALSE]
    /\ UNCHANGED <<m_capacity, m_queue, m_has_last_frame, m_last_frame, m_stats,
                   clock, pushedPTS, poppedPTS, lastPopped, goneIds>>
    /\ UNCHANGED notFB

\* push, the branch that inserts (after dropping the oldest when full)
PushInsert(frame, drop_oldest_on_full, now) ==
    /\ m_stats.frames_pushed < MaxPush
    /\ Len(m_queue) >= m_capacity => drop_oldest_on_full
    /\ LET full     == Len(m_queue) >= m_capacity
           dropping == full /\ m_queue # <<>>
           q1       == IF full THEN DropOldest(m_queue) ELSE m_queue
           late     == now > frame.pts
           buffered == [frame        |-> DeepCopy(frame, NewBuf),
                        arrival_time |-> now,
                        target_time  |-> frame.pts,
                        is_late      |-> late,
                        id           |-> m_stats.frames_pushed + 1]
       IN /\ m_queue' = Enqueue(q1, buffered)
          /\ m_stats' = [m_stats EXCEPT
                           !.frames_dropped = @ + (IF dropping THEN 1 ELSE 0),
                           !.frames_pushed  = @ + 1,
                           !.frames_late    = @ + (IF late THEN 1 ELSE 0)]
          /\ goneIds' = IF dropping THEN goneIds \cup {Head(m_queue).id}
                        ELSE goneIds
          /\ clock' = now
          /\ pushedPTS' = Append(pushedPTS, frame.pts)
          /\ fbOut' = [op |-> "push", result |-> "SUCCESS", frame |-> NoFrame,
                       repeated |-> FALSE, drop |-> drop_oldest_on_full]
    /\ UNCHANGED <<m_capacity, m_has_last_frame, m_last_frame, poppedPTS,
                   lastPopped>>
    /\ UNCHANGED notFB

push ==
    \/ \E frame \in InputFrames, drop \in BOOLEAN, now \in {clock + 1} :
          PushInsert(frame, drop, now)
    \/ PushFull

\* pop's "save as last frame": m_last_frame = buffered, then a deep copy of
\* the bytes when there are any
RetainLast(b, buf) ==
    IF b.frame.data # NULL /\ b.frame.size > 0
    THEN [b EXCEPT !.frame.data = buf]
    ELSE b

\* a repeat that would hand out the retained frame itself (shallow copy)
RepeatShallow(last, buf) == last.frame

\* pop on timeout: frame = m_last_frame.frame, then a deep copy of the bytes
RepeatFrame(last, buf) ==
    IF last.frame.data # NULL /\ last.frame.size > 0
    THEN [last.frame EXCEPT !.data = buf]
    ELSE last.frame

\* a pop that would take the newest frame instead of the oldest
Back(q) == q[Len(q)]

\* m_queue.front() of pop
Front(q) == Head(q)

\* pop, a frame is (or becomes, before the timeout) available
PopDequeue ==
    /\ m_queue # <<>>
    /\ LET buffered == Front(m_queue)
       IN /\ m_queue' = Tail(m_queue)
          /\ m_last_frame' = RetainLast(buffered, NewBuf)
          /\ fbOut' = [op |-> "pop", result |-> "SUCCESS",
                       frame |-> buffered.frame, repeated |-> FALSE]
          /\ poppedPTS' = Append(poppedPTS, buffered.frame.pts)
          /\ lastPopped' = buffered.frame
          /\ goneIds' = goneIds \cup {buffered.id}
    /\ m_has_last_frame' = TRUE
    /\ m_stats' = [m_stats EXCEPT !.frames_popped = @ + 1]
    /\ UNCHANGED <<m_capacity, clock, pushedPTS>>
    /\ UNCHANGED notFB

\* pop, the wait timed out with the queue still empty
PopTimeout ==
    /\ m_queue = <<>>
    /\ IF m_has_last_frame
       THEN /\ m_stats.frames_repeated < MaxRepeat
            /\ fbOut' = [op |-> "pop", result |-> "SUCCESS",
                         frame |-> RepeatFrame(m_last_frame, NewBuf),
                         repeated |-> TRUE]
            /\ m_stats' = [m_stats EXCEPT !.frames_repeated = @ + 1]
       ELSE /\ fbOut' = [op |-> "pop", result |-> "ERROR_TIMEOUT",
                         frame |-> NoFrame, repeated |-> FALSE]
            /\ UNCHANGED m_stats
    /\ UNCHANGED <<m_capacity, m_queue, m_has_last_frame, m_last_frame, clock,
                   pushedPTS, poppedPTS, lastPopped, goneIds>>
    /\ UNCHANGED notFB

pop == PopDequeue \/ PopTimeout

\* peek: a shallow copy of the head
peek ==
    /\ fbOut' = IF m_queue = <<>>
                THEN [op |-> "peek", result |-> "ERROR_NOT_FOUND",
                      frame |-> NoFrame, repeated |-> FALSE]
                ELSE [op |-> "peek", result |-> "SUCCESS",
                      frame |-> Front(m_queue).frame, repeated |-> FALSE]
    /\ UNCHANGED <<m_capacity, m_queue, m_has_last_frame, m_last_frame, m_stats,
                   clock, pushedPTS, poppedPTS, lastPopped, goneIds>>
    /\ UNCHANGED notFB

\* |pts - target_pts|
Diff(pts, target_pts) ==
    IF pts > target_pts THEN pts - target_pts ELSE target_pts - pts

\* the positions of q whose PTS lies within the tolerance
Matching(q, target_pts, tolerance) ==
    { i \in 1..Len(q) : Diff(q[i].frame.pts, target_pts) <= tolerance }

\* the position at which getFrameByPTS's scan breaks out of its loop
\* (0: the scan reaches the end of the queue)
FoundIndex(q, target_pts, tolerance) ==
    LET m == Matching(q, target_pts, tolerance)
    IN IF m = {} THEN 0 ELSE CHOOSE i \in m : \A j \in m : i <= j

\* getFrameByPTS's temp_queue: the scanned frames, the found one included,
\* followed by the rest of the queue
RestoreQueue(q, found) ==
    IF found = 0 THEN q
    ELSE SubSeq(q, 1, found) \o SubSeq(q, found + 1, Len(q))

getFrameByPTS(target_pts, tolerance) ==
    /\ LET found == FoundIndex(m_queue, target_pts, tolerance)
       IN /\ m_queue' = RestoreQueue(m_queue, found)
          /\ goneIds' = goneIds \cup
                          ({ m_queue[i].id : i \in 1..Len(m_queue) } \
                           { m_queue'[i].id : i \in 1..Len(m_queue') })
          /\ fbOut' = IF found = 0
                      THEN [op |-> "getFrameByPTS", result |-> "ERROR_NOT_FOUND",
                            frame |-> NoFrame, repeated |-> FALSE,
                            target |-> target_pts, tolerance |-> tolerance,
                            id |-> 0]
                      ELSE [op |-> "getFrameByPTS", result |-> "SUCCESS",
                            frame |-> m_queue[found].frame, repeated |-> FALSE,
                            target |-> target_pts, tolerance |-> tolerance,
                            id |-> m_queue[found].id]
    /\ UNCHANGED <<m_capacity, m_has_last_frame, m_last_frame, m_stats, clock,
                   pushedPTS, poppedPTS, lastPopped>>
    /\ UNCHANGED notFB

\* clear's "free last frame" block
ClearLast(has, last) ==
    IF has /\ last.frame.data # NULL THEN FALSE ELSE has

clear ==
    /\ m_queue' = <<>>
    /\ m_has_last_frame' = ClearLast(m_has_last_frame, m_last_frame)
    /\ goneIds' = goneIds \cup { m_queue[i].id : i \in 1..Len(m_queue) }
    /\ fbOut' = [op |-> "clear", result |-> "SUCCESS", frame |-> NoFrame,
                 repeated |-> FALSE]
    /\ UNCHANGED <<m_capacity, m_last_frame, m_stats, clock,
                   pushedPTS, poppedPTS, lastPopped>>
    /\ UNCHANGED notFB

FBInit(capacities) ==
    /\ m_capacity \in capacities
    /\ m_queue = <<>>
    /\ m_has_last_frame = FALSE
    /\ m_last_frame = NoBuffered
    /\ m_stats = InitStats
    /\ clock = 0
    /\ fbOut = [op |-> "none", result |-> "SUCCESS", frame |-> NoFrame,
                repeated |-> FALSE]
    /\ pushedPTS = <<>>
    /\ poppedPTS = <<>>
    /\ lastPopped = NoFrame
    /\ goneIds = {}

(***************************************************************************)
(* sync::FrameScheduler.  The rates are whole numbers of Hz whose ratios    *)
(* are exact in binary floating point, so the accumulator is exact in units *)
(* of 1/AccUnit.  The presentation times (calculateNextPresentationTime,    *)
(* waitUntilPresentationTime) are not part of the state: no decision of     *)
(* scheduleFrame reads them.                                                *)
(***************************************************************************)
\* the accumulator counts in units of 1/AccUnit of a display frame
AccUnit == 120

\* the rates a caller passes; 0 stands for the rejected values (<= 0)
Rates == {0, 30, 60, 120}

Algorithms == {"IMMEDIATE", "VSYNC", "ADAPTIVE", "FRAME_PACING"}

SchedInit ==
    /\ m_initialized = FALSE
    /\ m_display_refresh_rate = 60
    /\ m_source_frame_rate = 60
    /\ m_algorithm = "FRAME_PACING"
    /\ m_vrr_enabled = FALSE
    /\ m_first_frame = TRUE
    /\ m_frame_number = 0
    /\ m_frame_accumulator = 0
    /\ schedStats = [frames_scheduled |-> 0, frames_dropped |-> 0]
    /\ schedOut = [op |-> "none", result |-> "SUCCESS"]
    /\ decisions = <<>>

initialize(display_refresh_rate, algorithm) ==
    /\ IF display_refresh_rate <= 0
       THEN /\ schedOut' = [op |-> "initialize",
                            result |-> "ERROR_INVALID_PARAMETER"]
            /\ UNCHANGED <<m_initialized, m_display_refresh_rate,
                           m_source_frame_rate, m_algorithm, m_first_frame,
                           m_frame_number, m_frame_accumulator, schedStats,
                           decisions>>
       ELSE /\ m_display_refresh_rate' = display_refresh_rate
            /\ m_source_frame_rate' = display_refresh_rate
            /\ m_algorithm' = algorithm
            /\ m_first_frame' = TRUE
            /\ m_frame_number' = 0
            /\ m_frame_accumulator' = 0
            /\ schedStats' = [frames_scheduled |-> 0, frames_dropped |-> 0]
            /\ m_initialized' = TRUE
            /\ decisions' = <<>>
            /\ schedOut' = [op |-> "initialize", result |-> "SUCCESS"]
    /\ UNCHANGED m_vrr_enabled
    /\ UNCHANGED notSched

setSourceFrameRate(fps) ==
    /\ IF fps <= 0
       THEN UNCHANGED <<m_source_frame_rate, m_frame_accumulator, decisions>>
       ELSE /\ m_source_frame_rate' = fps
            /\ m_frame_accumulator' = 0
            /\ decisions' = <<>>
    /\ schedOut' = [op |-> "setSourceFrameRate", result |-> "SUCCESS"]
    /\ UNCHANGED <<m_initialized, m_display_refresh_rate, m_algorithm,
                   m_vrr_enabled, m_first_frame, m_frame_number, schedStats>>
    /\ UNCHANGED notSched

setDisplayRefreshRate(hz) ==
    /\ IF hz <= 0
       THEN UNCHANGED <<m_display_refresh_rate, decisions>>
       ELSE /\ m_display_refresh_rate' = hz
            /\ decisions' = <<>>
    /\ schedOut' = [op |-> "setDisplayRefreshRate", result |-> "SUCCESS"]
    /\ UNCHANGED <<m_initialized, m_source_frame_rate, m_algorithm,
                   m_vrr_enabled, m_first_frame, m_frame_number,
                   m_frame_accumulator, schedStats>>
    /\ UNCHANGED notSched

setAlgorithm(algorithm) ==
    /\ m_algorithm' = algorithm
    /\ schedOut' = [op |-> "setAlgorithm", result |-> "SUCCESS"]
    /\ UNCHANGED <<m_initialized, m_display_refresh_rate, m_source_frame_rate,
                   m_vrr_enabled, m_first_frame, m_frame_number,
                   m_frame_accumulator, schedStats, decisions>>
    /\ UNCHANGED notSched

setVRREnabled(enabled) ==
    /\ m_vrr_enabled' = enabled
    /\ schedOut' = [op |-> "setVRREnabled", result |-> "SUCCESS"]
    /\ UNCHANGED <<m_initialized, m_display_refresh_rate, m_source_frame_rate,
                   m_algorithm, m_first_frame, m_frame_number,
                   m_frame_accumulator, schedStats, decisions>>
    /\ UNCHANGED notSched

\* shouldDropFrame: the accumulator after adding source/display
Accumulate(acc, source, display) == acc + (source * AccUnit) \div display

\* shouldDropFrame: the decision, on the accumulator after the addition
ShouldDrop(acc) == acc >= AccUnit

\* shouldDropFrame: the accumulator it leaves behind
AfterDrop(acc) == IF ShouldDrop(acc) THEN acc - AccUnit ELSE acc

scheduleFrame ==
    /\ m_frame_number < MaxFrames
    /\ IF ~m_initialized
       THEN /\ schedOut' = [op |-> "scheduleFrame",
                            result |-> "ERROR_NOT_INITIALIZED"]
            /\ UNCHANGED <<m_first_frame, m_frame_number, m_frame_accumulator,
                           schedStats, decisions>>
       ELSE /\ schedOut' = [op |-> "scheduleFrame", result |-> "SUCCESS"]
            /\ IF m_first_frame
               THEN /\ m_first_frame' = FALSE
                    /\ schedStats' = [schedStats EXCEPT !.frames_scheduled = @ + 1]
                    /\ decisions' = Append(decisions, TRUE)
                    /\ UNCHANGED <<m_frame_number, m_frame_accumulator>>
               ELSE LET converting == m_source_frame_rate # m_display_refresh_rate
                        acc == Accumulate(m_frame_accumulator, m_source_frame_rate,
                                          m_display_refresh_rate)
                        drop == converting /\ ShouldDrop(acc)
                    IN /\ m_frame_accumulator' =
                             IF converting THEN AfterDrop(acc)
                             ELSE m_frame_accumulator
                       /\ schedStats' =
                             IF drop
                             THEN [schedStats EXCEPT !.frames_dropped = @ + 1]
                             ELSE [schedStats EXCEPT !.frames_scheduled = @ + 1]
                       /\ m_frame_number' = m_frame_number + 1
                       /\ decisions' = Append(decisions, ~drop)
                       /\ UNCHANGED m_first_frame
    /\ UNCHANGED <<m_initialized, m_display_refresh_rate, m_source_frame_rate,
                   m_algorithm, m_vrr_enabled>>
    /\ UNCHANGED notSched

(***************************************************************************)
(* osd::MenuSystem.  An item carries its type, its visible and enabled      *)
(* flags and the configuration value it is wired to (value, with min, max   *)
(* and step, in units of one step).  The statistics counters, the animation *)
(* progress and the rendering are not part of the state: no decision of the *)
(* input handling reads them.                                               *)
(***************************************************************************)
\* the type of the item at position i (1-based) of tab t (1-based) in the
\* menus explored
TypeAt(t, i) ==
    IF t % 2 = 1 THEN (IF i % 2 = 1 THEN "SLIDER" ELSE "TOGGLE")
    ELSE (IF i % 2 = 1 THEN "INTEGER" ELSE "ENUM")

\* a freshly built item: sliders and integers range over 0..1 in steps of 1
\* and start at 0, toggles and enums (two options) start at 0
MenuItem(type, visible, enabled) ==
    [type |-> type, visible |-> visible, enabled |-> enabled,
     value |-> 0, min_value |-> 0, max_value |-> 1, step |-> 1,
     enum_options |-> 2]

\* the numbers of items of the tabs of a menu
Shapes == UNION { [1..k -> 0..MaxItems] : k \in 0..MaxTabs }

\* the positions <<tab, item>> (1-based) of a menu of that shape
Positions(shape) ==
    { p \in (1..Len(shape)) \X (1..MaxItems) : p[2] <= shape[p[1]] }

\* the menu of that shape whose items at the positions of off are hidden
\* (visible = false) or disabled (enabled = false)
BuildMenu(shape, off) ==
    [t \in 1..Len(shape) |->
        [i \in 1..shape[t] |->
            MenuItem(TypeAt(t, i),
                     ~(<<t, i>> \in DOMAIN off /\ off[<<t, i>>] = "hidden"),
                     ~(<<t, i>> \in DOMAIN off /\ off[<<t, i>>] = "disabled"))]]

\* the menu structures passed to loadMenu: at most MaxOff items of a menu are
\* hidden or disabled
Menus ==
    UNION { UNION { { BuildMenu(shape, off) : off \in [D -> {"hidden", "disabled"}] } :
                    D \in { S \in SUBSET Positions(shape) : Cardinality(S) <= MaxOff } } :
            shape \in Shapes }

\* RemoteButton NUM_1 .. NUM_8, in the order of the enumeration
NumButtons == <<"NUM_1", "NUM_2", "NUM_3", "NUM_4", "NUM_5", "NUM_6", "NUM_7", "NUM_8">>

\* static_cast<int>(button) - static_cast<int>(RB::NUM_1)
TabIndexOf(button) == (CHOOSE n \in 1..Len(NumButtons) : NumButtons[n] = button) - 1

\* the buttons pressed: those handleButton dispatches on, one it ignores
\* (NUM_0), and the number buttons up to one past the last tab
Buttons == {"MENU", "UP", "DOWN", "LEFT", "RIGHT", "OK", "BACK", "NUM_0"}
              \cup { NumButtons[n] : n \in 1..(MaxTabs + 1) }

MenuInit ==
    /\ menu_initialized = FALSE
    /\ callback_set = FALSE
    /\ m_config = [timeout_ms |-> 5000]
    /\ m_menu = <<>>
    /\ m_current_tab = 0
    /\ m_current_item = 0
    /\ m_scroll_offset = 0
    /\ m_visible = FALSE
    /\ m_adjusting_value = FALSE
    /\ m_timeout_accumulator = 0
    /\ hung = FALSE
    /\ menuOut = [op |-> "none", button |-> "none", pressed |-> FALSE]
    /\ idleTime = 0

Called(op) == [op |-> op, button |-> "none", pressed |-> FALSE]

\* initialize(renderer, remote, config) with non-null renderer and remote
menuInitialize(timeout_ms) ==
    /\ ~hung
    /\ m_config' = [timeout_ms |-> timeout_ms]
    /\ callback_set' = TRUE
    /\ menu_initialized' = TRUE
    /\ menuOut' = Called("initialize")
    /\ idleTime' = 0
    /\ UNCHANGED <<m_menu, m_current_tab, m_current_item, m_scroll_offset,
                   m_visible, m_adjusting_value, m_timeout_accumulator, hung>>
    /\ UNCHANGED notMenu

menuShutdown ==
    /\ ~hung
    /\ menu_initialized' = FALSE
    /\ menuOut' = Called("shutdown")
    /\ UNCHANGED idleTime
    /\ UNCHANGED <<callback_set, m_config, m_menu, m_current_tab, m_current_item,
                   m_scroll_offset, m_visible, m_adjusting_value,
                   m_timeout_accumulator, hung>>
    /\ UNCHANGED notMenu

loadMenu(menu) ==
    /\ ~hung
    /\ m_menu' = menu
    /\ m_current_tab' = 0
    /\ m_current_item' = 0
    /\ m_scroll_offset' = 0
    /\ menuOut' = Called("loadMenu")
    /\ UNCHANGED idleTime
    /\ UNCHANGED <<menu_initialized, callback_set, m_config, m_visible,
                   m_adjusting_value, m_timeout_accumulator, hung>>
    /\ UNCHANGED notMenu

\* getCurrentMenu() # nullptr
HasCurrentMenu(menu, tab) == tab >= 0 /\ tab < Len(menu)

\* the items of getCurrentMenu()
CurrentItems(menu, tab) == menu[tab + 1]

\* getCurrentItem() # nullptr
HasCurrentItem(menu, tab, item) ==
    HasCurrentMenu(menu, tab) /\ item >= 0 /\ item < Len(CurrentItems(menu, tab))

\* the loop condition of navigateUp / navigateDown, negated
Selectable(it) == it.visible /\ it.enabled

\* one iteration of navigateUp's loop body
StepUp(item, n) == IF item - 1 < 0 THEN n - 1 ELSE item - 1

\* one iteration of navigateDown's loop body
StepDown(item, n) == IF item + 1 >= n THEN 0 ELSE item + 1

RECURSIVE ScanUp(_, _)
\* navigateUp's do-while loop, on a tab that has a selectable item
ScanUp(items, item) ==
    LET next == StepUp(item, Len(items))
    IN IF Selectable(items[next + 1]) THEN next ELSE ScanUp(items, next)

RECURSIVE ScanDown(_, _)
\* navigateDown's do-while loop, on a tab that has a selectable item
ScanDown(items, item) ==
    LET next == StepDown(item, Len(items))
    IN IF Selectable(items[next + 1]) THEN next ELSE ScanDown(items, next)

\* the loop of navigateUp / navigateDown ends iff some item is selectable
LoopEnds(items) == \E i \in 1..Len(items) : Selectable(items[i])

\* the members the input handling reads and writes; each method below maps
\* their values before the call to their values after it
NavState == [tab |-> m_current_tab, item |-> m_current_item,
             scroll |-> m_scroll_offset, visible |-> m_visible,
             adjusting |-> m_adjusting_value, acc |-> m_timeout_accumulator,
             menu |-> m_menu, hung |-> FALSE]

\* resetTimeout()
ResetTimeout(st) == [st EXCEPT !.acc = 0]

show(st) == IF ~st.visible THEN ResetTimeout([st EXCEPT !.visible = TRUE]) ELSE st

hide(st) == IF st.visible THEN [st EXCEPT !.visible = FALSE] ELSE st

toggle(st) == IF st.visible THEN hide(st) ELSE show(st)

navigateUp(st) ==
    IF ~HasCurrentMenu(st.menu, st.tab) \/ CurrentItems(st.menu, st.tab) = <<>>
    THEN st
    ELSE IF ~LoopEnds(CurrentItems(st.menu, st.tab)) THEN [st EXCEPT !.hung = TRUE]
    ELSE ResetTimeout([st EXCEPT
            !.item = ScanUp(CurrentItems(st.menu, st.tab), st.item)])

navigateDown(st) ==
    IF ~HasCurrentMenu(st.menu, st.tab) \/ CurrentItems(st.menu, st.tab) = <<>>
    THEN st
    ELSE IF ~LoopEnds(CurrentItems(st.menu, st.tab)) THEN [st EXCEPT !.hung = TRUE]
    ELSE ResetTimeout([st EXCEPT
            !.item = ScanDown(CurrentItems(st.menu, st.tab), st.item)])

\* std::clamp(v, lo, hi)
Clamp(v, lo, hi) == IF v < lo THEN lo ELSE IF v > hi THEN hi ELSE v

\* adjustValue's slider step, item->step * delta * 10 with delta = 0.1 * dir
SliderStep(it, dir) == it.step * dir

\* adjustValue's integer step, max(1, (int)(item->step * delta * 10))
IntegerStep(it, dir) == IF it.step * dir > 1 THEN it.step * dir ELSE 1

\* adjustValue(0.1 * dir)
adjustValue(st, dir) ==
    IF ~HasCurrentItem(st.menu, st.tab, st.item) THEN st
    ELSE LET it == st.menu[st.tab + 1][st.item + 1]
             v  == IF it.type = "SLIDER"
                   THEN Clamp(it.value + SliderStep(it, dir), it.min_value, it.max_value)
                   ELSE IF it.type = "INTEGER"
                   THEN Clamp(it.value + IntegerStep(it, dir), it.min_value, it.max_value)
                   ELSE it.value
         IN ResetTimeout([st EXCEPT !.menu[st.tab + 1][st.item + 1].value = v])

navigateLeft(st) ==
    IF st.adjusting THEN adjustValue(st, -1)
    ELSE ResetTimeout([st EXCEPT
            !.tab = IF st.tab - 1 < 0 THEN Len(st.menu) - 1 ELSE st.tab - 1,
            !.item = 0, !.scroll = 0])

navigateRight(st) ==
    IF st.adjusting THEN adjustValue(st, 1)
    ELSE ResetTimeout([st EXCEPT
            !.tab = IF st.tab + 1 >= Len(st.menu) THEN 0 ELSE st.tab + 1,
            !.item = 0, !.scroll = 0])

navigateTab(st, tab_index) ==
    IF tab_index >= 0 /\ tab_index < Len(st.menu)
    THEN ResetTimeout([st EXCEPT !.tab = tab_index, !.item = 0, !.scroll = 0])
    ELSE st

selectCurrent(st) ==
    IF ~HasCurrentItem(st.menu, st.tab, st.item) THEN st
    ELSE LET it == st.menu[st.tab + 1][st.item + 1]
         IN IF ~it.enabled THEN st
            ELSE ResetTimeout(
                   IF it.type = "TOGGLE"
                   THEN [st EXCEPT !.menu[st.tab + 1][st.item + 1].value = 1 - it.value]
                   ELSE IF it.type = "SLIDER"
                   THEN [st EXCEPT !.adjusting = ~st.adjusting]
                   ELSE IF it.type = "ENUM"
                   THEN [st EXCEPT !.menu[st.tab + 1][st.item + 1].value =
                                      (it.value + 1) % it.enum_options]
                   ELSE st)

goBack(st) ==
    ResetTimeout(IF st.adjusting THEN [st EXCEPT !.adjusting = FALSE] ELSE hide(st))

\* the switch of handleButton for a pressed button
Dispatch(st, button) ==
    IF button = "MENU" THEN toggle(st)
    ELSE IF ~st.visible THEN st
    ELSE IF button = "UP" THEN navigateUp(st)
    ELSE IF button = "DOWN" THEN navigateDown(st)
    ELSE IF button = "LEFT" THEN navigateLeft(st)
    ELSE IF button = "RIGHT" THEN navigateRight(st)
    ELSE IF button = "OK" THEN selectCurrent(st)
    ELSE IF button = "BACK" THEN goBack(st)
    ELSE IF button \in { NumButtons[n] : n \in 1..Len(NumButtons) }
         THEN navigateTab(st, TabIndexOf(button))
    ELSE st

\* the members take the values of st
SetNav(st) ==
    /\ m_current_tab' = st.tab
    /\ m_current_item' = st.item
    /\ m_visible' = st.visible
    /\ m_adjusting_value' = st.adjusting
    /\ m_timeout_accumulator' = st.acc
    /\ m_menu' = st.menu
    /\ hung' = st.hung
    /\ m_scroll_offset' = st.scroll

handleButton(button, pressed) ==
    /\ ~hung
    /\ callback_set
    /\ SetNav(IF pressed THEN Dispatch(NavState, button) ELSE NavState)
    /\ menuOut' = [op |-> "handleButton", button |-> button, pressed |-> pressed]
    /\ idleTime' = IF pressed THEN 0 ELSE idleTime
    /\ UNCHANGED <<menu_initialized, callback_set, m_config>>
    /\ UNCHANGED notMenu

\* show() called by the owner of the menu
menuShow ==
    /\ ~hung
    /\ SetNav(show(NavState))
    /\ menuOut' = Called("show")
    /\ idleTime' = IF m_visible THEN idleTime ELSE 0
    /\ UNCHANGED <<menu_initialized, callback_set, m_config>>
    /\ UNCHANGED notMenu

\* an update that hides the menu only once the accumulator exceeds the timeout
updateLate(delta_time_ms) ==
    /\ ~hung
    /\ IF ~menu_initialized \/ ~m_visible \/ m_config.timeout_ms <= 0
       THEN UNCHANGED <<m_visible, m_timeout_accumulator>>
       ELSE IF m_timeout_accumulator + delta_time_ms > m_config.timeout_ms
       THEN /\ m_visible' = FALSE
            /\ m_timeout_accumulator' = 0
       ELSE /\ m_timeout_accumulator' = m_timeout_accumulator + delta_time_ms
            /\ UNCHANGED m_visible
    /\ menuOut' = Called("update")
    /\ idleTime' = IF menu_initialized /\ m_visible /\ m_config.timeout_ms > 0
                   THEN Clamp(idleTime + delta_time_ms, 0, MaxTimeout)
                   ELSE idleTime
    /\ UNCHANGED <<menu_initialized, callback_set, m_config, m_menu,
                   m_current_tab, m_current_item, m_scroll_offset,
                   m_adjusting_value, hung>>
    /\ UNCHANGED notMenu

\* update(delta_time_ms), as it acts on the menu: the inactivity timeout
Update(delta_time_ms) ==
    /\ ~hung
    /\ IF ~menu_initialized \/ ~m_visible \/ m_config.timeout_ms <= 0
       THEN UNCHANGED <<m_visible, m_timeout_accumulator>>
       ELSE IF m_timeout_accumulator + delta_time_ms >= m_config.timeout_ms
       THEN /\ m_visible' = FALSE
            /\ m_timeout_accumulator' = 0
       ELSE /\ m_timeout_accumulator' = m_timeout_accumulator + delta_time_ms
            /\ UNCHANGED m_visible
    /\ menuOut' = Called("update")
    /\ idleTime' = IF menu_initialized /\ m_visible /\ m_config.timeout_ms > 0
                   THEN Clamp(idleTime + delta_time_ms, 0, MaxTimeout)
                   ELSE idleTime
    /\ UNCHANGED <<menu_initialized, callback_set, m_config, m_menu,
                   m_current_tab, m_current_item, m_scroll_offset,
                   m_adjusting_value, hung>>

update(delta_time_ms) ==
    /\ Update(delta_time_ms)
    /\ UNCHANGED notMenu

(***************************************************************************)
(* processing::BlackBarDetector.  A frame is given by its dimensions and    *)
(* the black bars of its picture; the scans of analyzeHorizontal and        *)
(* analyzeVertical are computed on the rows and columns that are not black. *)
(* A confidence is the fraction <<numerator, denominator>>; fractions are   *)
(* compared exactly.                                                       *)
(***************************************************************************)
Frac(n, d) == <<n, d>>

\* a >= b
FracGE(a, b) == a[1] * b[2] >= b[1] * a[2]

\* a > b
FracGT(a, b) == a[1] * b[2] > b[1] * a[2]

\* std::abs
Abs(x) == IF x < 0 THEN -x ELSE x

CropRegion(t, b, l, r, c, s) ==
    [top |-> t, bottom |-> b, left |-> l, right |-> r,
     confidence |-> c, is_symmetric |-> s]

\* CropRegion()
NoCrop == CropRegion(0, 0, 0, 0, Frac(0, 1), FALSE)

\* the four insets of a crop region
Insets(c) == <<c.top, c.bottom, c.left, c.right>>

\* width and height of the frames analysed
FrameWidth == 40
FrameHeight == 40

\* the black bars <<top, bottom, left, right>> of the pictures analysed: none,
\* a letterbox, a letterbox 1 px off, a pillarbox whose bars differ by 5% of
\* the width, bars covering 60% of the height
Bars == { <<0, 0, 0, 0>>, <<3, 3, 0, 0>>, <<3, 4, 0, 0>>,
          <<0, 0, 3, 5>>, <<12, 12, 0, 0>> }

\* the frames passed to analyzeFrame
LumaFrames ==
    { [width |-> FrameWidth, height |-> FrameHeight,
       top |-> b[1], bottom |-> b[2], left |-> b[3], right |-> b[4]] : b \in Bars }

\* the rows of the frame with a sample above the threshold
BrightRows(f) == { y \in 0..(f.height - 1) : f.top <= y /\ y <= f.height - 1 - f.bottom }

\* the columns of the frame with a sample above the threshold
BrightCols(f) == { x \in 0..(f.width - 1) : f.left <= x /\ x <= f.width - 1 - f.right }

SetMin(S) == CHOOSE x \in S : \A y \in S : x <= y

SetMax(S) == CHOOSE x \in S : \A y \in S : x >= y

\* analyzeHorizontal: <<top, bottom>>
analyzeHorizontal(f) ==
    LET upper == { y \in BrightRows(f) : y < f.height \div 2 }
        lower == { y \in BrightRows(f) : y > f.height \div 2 }
    IN << IF upper = {} THEN 0 ELSE SetMin(upper),
          IF lower = {} THEN 0 ELSE f.height - 1 - SetMax(lower) >>

\* analyzeVertical: <<left, right>>
analyzeVertical(f) ==
    LET lefts  == { x \in BrightCols(f) : x < f.width \div 2 }
        rights == { x \in BrightCols(f) : x > f.width \div 2 }
    IN << IF lefts = {} THEN 0 ELSE SetMin(lefts),
          IF rights = {} THEN 0 ELSE f.width - 1 - SetMax(rights) >>

\* content_height < min_content_height || content_width < min_content_width,
\* with both minimums 0.5
TooSmall(t, b, l, r, width, height) ==
    \/ 2 * (height - t - b) < height
    \/ 2 * (width - l - r) < width

\* isSymmetric: diff < dimension * 0.05
isSymmetric(t, b, l, r, width, height) ==
    /\ (t > 0 \/ b > 0) => 20 * Abs(t - b) < height
    /\ (l > 0 \/ r > 0) => 20 * Abs(l - r) < width

\* the comparison of calculateConfidence, with its tolerance of 2 pixels
Matches(crop, latest) ==
    /\ Abs(crop.top - latest.top) <= 2
    /\ Abs(crop.bottom - latest.bottom) <= 2
    /\ Abs(crop.left - latest.left) <= 2
    /\ Abs(crop.right - latest.right) <= 2

calculateConfidence(history) ==
    IF history = <<>> THEN Frac(0, 1)
    ELSE Frac(Cardinality({ i \in 1..Len(history) :
                              Matches(history[i], history[Len(history)]) }),
              Len(history))

\* config.confidence_threshold, 0.8
ConfidenceThreshold == Frac(4, 5)

\* a comparison that demands more than the threshold
AboveThreshold(conf) == FracGT(conf, ConfidenceThreshold)

\* new_crop.confidence >= config.confidence_threshold
MeetsThreshold(conf) == FracGE(conf, ConfidenceThreshold)

\* (int)(current * smoothing + target * (1 - smoothing)), smoothing 0.3
Smooth(current, target) == (3 * current + 7 * target) \div 10

smoothCrop(current, target) ==
    CropRegion(Smooth(current.top, target.top), Smooth(current.bottom, target.bottom),
               Smooth(current.left, target.left), Smooth(current.right, target.right),
               target.confidence, target.is_symmetric)

\* m_history.push_back(crop), bounded by m_max_history
PushHistory(history, crop) ==
    IF Len(history) + 1 > MaxHistory THEN Tail(Append(history, crop))
    ELSE Append(history, crop)

\* config.manual_crop of the configurations with a manual override
ManualInsets == <<5, 0, 0, 0>>

\* BlackBarConfig with detection enabled, symmetric_only and smoothing set,
\* no bootstrap and no manual override
DefaultBBConfig ==
    [enabled |-> TRUE, manual_crop |-> FALSE, use_ffmpeg_bootstrap |-> FALSE,
     symmetric_only |-> TRUE, crop_smoothing |-> TRUE, delay_frames |-> MaxDelay]

\* the BlackBarConfig values passed to the detector: that one and those that
\* differ from it in one setting
BBConfigs ==
    { DefaultBBConfig,
      [DefaultBBConfig EXCEPT !.enabled = FALSE],
      [DefaultBBConfig EXCEPT !.manual_crop = TRUE],
      [DefaultBBConfig EXCEPT !.use_ffmpeg_bootstrap = TRUE],
      [DefaultBBConfig EXCEPT !.symmetric_only = FALSE],
      [DefaultBBConfig EXCEPT !.crop_smoothing = FALSE] }

BBInit ==
    /\ m_history = <<>>
    /\ m_current_crop = NoCrop
    /\ m_stable_crop = NoCrop
    /\ m_bootstrap_crop = NoCrop
    /\ m_bootstrap_complete = FALSE
    /\ bbStats = [frames_analyzed |-> 0]
    /\ bbOut = [op |-> "none", path |-> "none"]
    /\ symmetricOnly = TRUE

\* the frames passed to processFrame: a 40 x 40 picture with a letterbox of 9
\* rows above and below, and a 16 x 16 picture without bars
PipelineFrames ==
    { [width |-> FrameWidth, height |-> FrameHeight,
       top |-> 9, bottom |-> 9, left |-> 0, right |-> 0],
      [width |-> 16, height |-> 16, top |-> 0, bottom |-> 0, left |-> 0, right |-> 0] }

\* <<top, bottom, left, right>> found by the two scans, per frame
Scans == [f \in LumaFrames \cup PipelineFrames |-> analyzeHorizontal(f) \o analyzeVertical(f)]

\* the crop analyzeFrame derives from the scans of the frame: none if the
\* content left would be too small or, with symmetric_only, if not symmetric
DetectedCrop(frame, config) ==
    LET tblr == Scans[frame]
        raw == IF TooSmall(tblr[1], tblr[2], tblr[3], tblr[4], frame.width, frame.height)
               THEN <<0, 0, 0, 0>> ELSE tblr
        symmetric == isSymmetric(raw[1], raw[2], raw[3], raw[4],
                                 frame.width, frame.height)
        ins == IF config.symmetric_only /\ ~symmetric THEN <<0, 0, 0, 0>> ELSE raw
    IN CropRegion(ins[1], ins[2], ins[3], ins[4], Frac(0, 1), symmetric)

\* analyzeFrame past the manual override and the bootstrap phase: detection
Detect(frame, config) ==
    \E pushed \in {DetectedCrop(frame, config)} :
    \E history \in {PushHistory(m_history, pushed)} :
    \E new_crop \in {[pushed EXCEPT !.confidence = calculateConfidence(history)]} :
       /\ m_history' = history
       /\ m_current_crop' = IF config.crop_smoothing
                            THEN smoothCrop(m_current_crop, new_crop) ELSE new_crop
       /\ m_stable_crop' = IF MeetsThreshold(new_crop.confidence)
                           THEN new_crop ELSE m_stable_crop
       /\ bbStats' = [bbStats EXCEPT !.frames_analyzed = @ + 1]
       /\ bbOut' = [op |-> "analyzeFrame", path |-> "detect"]
       /\ UNCHANGED <<m_bootstrap_crop, m_bootstrap_complete>>

\* analyzeFrame, as it acts on the detector
AnalyzeFrame(frame, config) ==
    /\ bbStats.frames_analyzed < MaxAnalyzed
    /\ symmetricOnly' = (symmetricOnly /\ config.symmetric_only)
    /\ IF ~config.enabled
       THEN /\ bbOut' = [op |-> "analyzeFrame", path |-> "disabled"]
            /\ UNCHANGED <<m_history, m_current_crop, m_stable_crop,
                           m_bootstrap_crop, m_bootstrap_complete, bbStats>>
       ELSE IF config.manual_crop
       THEN /\ m_current_crop' =
                 CropRegion(ManualInsets[1], ManualInsets[2], ManualInsets[3],
                            ManualInsets[4], Frac(1, 1), TRUE)
            /\ bbStats' = [bbStats EXCEPT !.frames_analyzed = @ + 1]
            /\ bbOut' = [op |-> "analyzeFrame", path |-> "manual"]
            /\ UNCHANGED <<m_history, m_stable_crop, m_bootstrap_crop,
                           m_bootstrap_complete>>
       ELSE IF config.use_ffmpeg_bootstrap /\ ~m_bootstrap_complete
       THEN /\ bbStats' = [bbStats EXCEPT !.frames_analyzed = @ + 1]
            /\ IF bbStats.frames_analyzed + 1 <= config.delay_frames
               THEN /\ bbOut' = [op |-> "analyzeFrame", path |-> "delay"]
                    /\ UNCHANGED <<m_current_crop, m_stable_crop>>
               ELSE /\ bbOut' = [op |-> "analyzeFrame", path |-> "bootstrap"]
                    /\ IF FracGT(m_bootstrap_crop.confidence, Frac(0, 1))
                       THEN /\ m_current_crop' = m_bootstrap_crop
                            /\ m_stable_crop' = m_bootstrap_crop
                       ELSE UNCHANGED <<m_current_crop, m_stable_crop>>
            /\ UNCHANGED <<m_history, m_bootstrap_crop, m_bootstrap_complete>>
       ELSE Detect(frame, config)

analyzeFrame(frame, config) ==
    /\ AnalyzeFrame(frame, config)
    /\ UNCHANGED notBB

\* what the cropdetect pass printed: nothing, text without a parsable crop,
\* or crop lines whose most common value is crop=w:h:x:y, seen count times
FFmpegOutputs ==
    { [kind |-> "empty", crop_w |-> 0, crop_h |-> 0, crop_x |-> 0, crop_y |-> 0,
       count |-> 0],
      [kind |-> "unparsable", crop_w |-> 0, crop_h |-> 0, crop_x |-> 0, crop_y |-> 0,
       count |-> 1],
      [kind |-> "crop", crop_w |-> 40, crop_h |-> 34, crop_x |-> 0, crop_y |-> 3,
       count |-> 12],
      [kind |-> "crop", crop_w |-> 40, crop_h |-> 34, crop_x |-> 0, crop_y |-> 6,
       count |-> 3] }

\* parseFFmpegCropOutput on a parsable output
parseFFmpegCropOutput(output, frame_width, frame_height) ==
    LET l == output.crop_x
        t == output.crop_y
        r == frame_width - output.crop_w - output.crop_x
        b == frame_height - output.crop_h - output.crop_y
    IN CropRegion(t, b, l, r,
                  IF output.count >= 10 THEN Frac(1, 1) ELSE Frac(output.count, 10),
                  isSymmetric(t, b, l, r, frame_width, frame_height))

\* seedHistoryWithBootstrap
seedHistoryWithBootstrap(crop) == [i \in 1..MaxHistory |-> crop]

bootstrapWithFFmpeg(output, frame_width, frame_height, config) ==
    /\ symmetricOnly' = (symmetricOnly /\ config.symmetric_only)
    /\ IF m_bootstrap_complete
       THEN /\ bbOut' = [op |-> "bootstrapWithFFmpeg", path |-> "SUCCESS"]
            /\ UNCHANGED <<m_history, m_current_crop, m_stable_crop,
                           m_bootstrap_crop, m_bootstrap_complete>>
       ELSE IF output.kind # "crop"
       THEN /\ m_bootstrap_complete' = TRUE
            /\ bbOut' = [op |-> "bootstrapWithFFmpeg", path |-> "ERROR_GENERIC"]
            /\ UNCHANGED <<m_history, m_current_crop, m_stable_crop, m_bootstrap_crop>>
       ELSE LET best_crop == parseFFmpegCropOutput(output, frame_width, frame_height)
            IN /\ m_history' = seedHistoryWithBootstrap(best_crop)
               /\ m_bootstrap_crop' = best_crop
               /\ m_stable_crop' = best_crop
               /\ m_current_crop' = best_crop
               /\ m_bootstrap_complete' = TRUE
               /\ bbOut' = [op |-> "bootstrapWithFFmpeg", path |-> "SUCCESS"]
    /\ UNCHANGED bbStats
    /\ UNCHANGED notBB

\* BlackBarDetector::reset
bbReset ==
    /\ m_history' = <<>>
    /\ m_current_crop' = NoCrop
    /\ m_stable_crop' = NoCrop
    /\ m_bootstrap_crop' = NoCrop
    /\ m_bootstrap_complete' = FALSE
    /\ bbOut' = [op |-> "reset", path |-> "none"]
    /\ UNCHANGED <<bbStats, symmetricOnly>>
    /\ UNCHANGED notBB

(***************************************************************************)
(* display::FrameRateMatcher and the modes of the DRMDisplay it drives.     *)
(* Rates are in mHz (1/1000 Hz); a connector's modes have whole refresh     *)
(* rates (drmModeModeInfo::vrefresh).  Comparisons are exact.               *)
(***************************************************************************)
DisplayMode(w, h, hz) == [width |-> w, height |-> h, refresh_rate |-> hz * 1000]

\* DisplayMode{}
NoMode == [width |-> 0, height |-> 0, refresh_rate |-> 0]

\* the modes connectors offer: 1080p at 24, 50, 60 and 144 Hz, 2160p at 24 Hz
ConnectorModes ==
    { DisplayMode(1920, 1080, hz) : hz \in {24, 50, 60, 144} }
        \cup { DisplayMode(3840, 2160, 24) }

\* the mode lists of the connectors explored: up to MaxModes different modes
ModeLists ==
    { l \in UNION { [1..n -> ConnectorModes] : n \in 0..MaxModes } :
        \A i, j \in 1..Len(l) : i # j => l[i] # l[j] }

\* the rates the capture reports, in mHz
SourceRates == {23976, 25000, 60000, 120000}

\* findClosestRefreshRate: round source fps to nearest common rate
BaseFps(source_fps) ==
    IF Abs(source_fps - 23976) < 100 THEN 24000
    ELSE IF Abs(source_fps - 29970) < 100 THEN 30000
    ELSE IF Abs(source_fps - 59940) < 100 THEN 60000
    ELSE IF Abs(source_fps - 119880) < 100 THEN 120000
    ELSE source_fps

RECURSIVE AvailableRates(_, _)
\* findClosestRefreshRate: the refresh rates of the modes, each once
AvailableRates(modes, rates) ==
    IF modes = <<>> THEN rates
    ELSE AvailableRates(Tail(modes),
            IF \E i \in 1..Len(rates) : Abs(rates[i] - Head(modes).refresh_rate) < 100
            THEN rates ELSE Append(rates, Head(modes).refresh_rate))

\* the scores (times 1000) one rate gets as an integer multiple (2..5) or an
\* integer divisor (2..4) of base_fps
Scores(rate, base_fps) ==
    { mult * 1000 : mult \in { m \in 2..5 : Abs(rate - base_fps * m) < 500 } }
        \cup { (10 + div) * 1000 :
                 div \in { d \in 2..4 : Abs(rate * d - base_fps) < 500 * d } }

RECURSIVE MatchLoop(_, _, _, _)
\* the first loop of findClosestRefreshRate over rates[i..]: <<returned,
\* best_match, best_score>>
MatchLoop(rates, base_fps, best_match, best_score) ==
    IF rates = <<>> THEN <<FALSE, best_match, best_score>>
    ELSE IF Abs(Head(rates) - base_fps) < 500 THEN <<TRUE, Head(rates), best_score>>
    ELSE LET sc == Scores(Head(rates), base_fps)
         IN IF sc # {} /\ SetMin(sc) < best_score
            THEN MatchLoop(Tail(rates), base_fps, Head(rates), SetMin(sc))
            ELSE MatchLoop(Tail(rates), base_fps, best_match, best_score)

RECURSIVE ClosestLoop(_, _, _, _)
\* the second loop of findClosestRefreshRate: the closest rate
ClosestLoop(rates, base_fps, best_match, best_score) ==
    IF rates = <<>> THEN best_match
    ELSE IF Abs(Head(rates) - base_fps) < best_score
         THEN ClosestLoop(Tail(rates), base_fps, Head(rates), Abs(Head(rates) - base_fps))
         ELSE ClosestLoop(Tail(rates), base_fps, best_match, best_score)

findClosestRefreshRate(source_fps, modes) ==
    LET rates == AvailableRates(modes, <<>>)
        found == MatchLoop(rates, BaseFps(source_fps), 0, 1000 * 1000)
    IN IF found[1] \/ found[2] # 0 THEN found[2]
       ELSE ClosestLoop(rates, BaseFps(source_fps), 0, found[3])

RECURSIVE BestOfRate(_, _, _)
\* findBestMatch: the mode with the target refresh rate and the most pixels
BestOfRate(modes, target_refresh, best_mode) ==
    IF modes = <<>> THEN best_mode
    ELSE BestOfRate(Tail(modes), target_refresh,
            IF /\ Abs(Head(modes).refresh_rate - target_refresh) < 500
               /\ Head(modes).width * Head(modes).height
                     > best_mode.width * best_mode.height
            THEN Head(modes) ELSE best_mode)

\* findBestMatch with m_display set
BestMatch(source_fps, modes) ==
    IF modes = <<>> THEN NoMode
    ELSE LET target_refresh == findClosestRefreshRate(source_fps, modes)
         IN IF target_refresh = 0 THEN NoMode
            ELSE BestOfRate(modes, target_refresh, NoMode)

\* the table of BestMatch over the inputs explored
BestMatches == [in \in SourceRates \X ModeLists |-> BestMatch(in[1], in[2])]

\* a matcher that takes no mode for optimal
NeverOptimal(source_fps, current, modes) == FALSE

isCurrentModeOptimal(source_fps, current, modes) ==
    Abs(current.refresh_rate - BestMatches[<<source_fps, modes>>].refresh_rate) < 500

\* DRMDisplay::setMode: the requested mode is one of the connector's
setModeSucceeds(mode, modes) ==
    \E i \in 1..Len(modes) :
        /\ modes[i].width = mode.width /\ modes[i].height = mode.height
        /\ Abs(modes[i].refresh_rate - mode.refresh_rate) <= 500

\* the matcher is constructed; the display is open on a connector with one of
\* the mode lists and shows one of its modes
FMInit(lists) ==
    /\ matcher_initialized = FALSE
    /\ m_enabled = TRUE
    /\ m_last_detected_fps = 0
    /\ m_last_was_stable = FALSE
    /\ matcherStats = [mode_switches |-> 0, mode_matched |-> FALSE]
    /\ available_modes \in lists
    /\ m_current_mode \in IF available_modes = <<>> THEN {NoMode}
                          ELSE { available_modes[i] : i \in 1..Len(available_modes) }
    /\ initialMode = m_current_mode
    /\ fmOut = [op |-> "none", result |-> "SUCCESS", source_fps |-> 0, mode |-> NoMode]
    /\ setModeCalls = <<>>
    /\ reports = [updates |-> 0, film |-> TRUE]

\* initialize(display, capture) with both set
matcherInitialize ==
    /\ matcher_initialized' = TRUE
    /\ fmOut' = [op |-> "initialize", result |-> "SUCCESS", source_fps |-> 0,
                 mode |-> NoMode]
    /\ UNCHANGED <<m_enabled, m_last_detected_fps, m_last_was_stable, matcherStats,
                   available_modes, m_current_mode, setModeCalls, initialMode, reports>>
    /\ UNCHANGED notFM

setEnabled(enabled) ==
    /\ m_enabled' = enabled
    /\ fmOut' = [op |-> "setEnabled", result |-> "SUCCESS", source_fps |-> 0,
                 mode |-> NoMode]
    /\ UNCHANGED <<matcher_initialized, m_last_detected_fps, m_last_was_stable,
                   matcherStats, available_modes, m_current_mode, setModeCalls,
                   initialMode, reports>>
    /\ UNCHANGED notFM

\* the public findBestMatch(source_fps)
findBestMatch(source_fps) ==
    /\ fmOut' = [op |-> "findBestMatch", result |-> "SUCCESS", source_fps |-> source_fps,
                 mode |-> IF matcher_initialized
                          THEN BestMatches[<<source_fps, available_modes>>] ELSE NoMode]
    /\ UNCHANGED <<matcher_initialized, m_enabled, m_last_detected_fps,
                   m_last_was_stable, matcherStats, available_modes, m_current_mode,
                   setModeCalls, initialMode, reports>>
    /\ UNCHANGED notFM

\* what stays as it is in every update
UpdateKeeps == UNCHANGED <<matcher_initialized, m_enabled, available_modes, initialMode>>

\* FrameRateMatcher::update(); detected_fps and is_stable are what the capture
\* returns when asked
matcherUpdate(detected_fps, is_stable) ==
    /\ reports.updates < MaxUpdates
    /\ UpdateKeeps
    /\ UNCHANGED notFM
    /\ IF ~m_enabled \/ ~matcher_initialized
       THEN /\ fmOut' = [op |-> "update", result |-> "SUCCESS", source_fps |-> 0,
                         mode |-> NoMode]
            /\ UNCHANGED <<m_last_detected_fps, m_last_was_stable, matcherStats,
                           m_current_mode, setModeCalls, reports>>
       ELSE
       /\ reports' = [updates |-> reports.updates + 1,
                      film |-> reports.film /\ is_stable /\ detected_fps = 23976]
       /\ IF ~is_stable \/ (Abs(detected_fps - m_last_detected_fps) < 500 /\ m_last_was_stable)
          THEN /\ fmOut' = [op |-> "update", result |-> "SUCCESS",
                            source_fps |-> detected_fps, mode |-> NoMode]
               /\ UNCHANGED <<m_last_detected_fps, m_last_was_stable, matcherStats,
                              m_current_mode, setModeCalls>>
          ELSE IF isCurrentModeOptimal(detected_fps, m_current_mode, available_modes)
          THEN /\ matcherStats' = [matcherStats EXCEPT !.mode_matched = TRUE]
               /\ m_last_detected_fps' = detected_fps
               /\ m_last_was_stable' = is_stable
               /\ fmOut' = [op |-> "update", result |-> "SUCCESS",
                            source_fps |-> detected_fps, mode |-> NoMode]
               /\ UNCHANGED <<m_current_mode, setModeCalls>>
          ELSE \E best_mode \in {BestMatches[<<detected_fps, available_modes>>]} :
               IF best_mode.refresh_rate = 0
               THEN /\ matcherStats' = [matcherStats EXCEPT !.mode_matched = FALSE]
                    /\ fmOut' = [op |-> "update", result |-> "ERROR_NOT_FOUND",
                                 source_fps |-> detected_fps, mode |-> NoMode]
                    /\ UNCHANGED <<m_last_detected_fps, m_last_was_stable,
                                   m_current_mode, setModeCalls>>
               ELSE /\ setModeCalls' = Append(setModeCalls, best_mode.refresh_rate)
                    /\ m_last_detected_fps' = detected_fps
                    /\ m_last_was_stable' = is_stable
                    /\ IF setModeSucceeds(best_mode, available_modes)
                       THEN /\ m_current_mode' = best_mode
                            /\ matcherStats' =
                                 [mode_switches |-> matcherStats.mode_switches + 1,
                                  mode_matched |-> TRUE]
                            /\ fmOut' = [op |-> "update", result |-> "SUCCESS",
                                         source_fps |-> detected_fps, mode |-> best_mode]
                       ELSE /\ matcherStats' = [matcherStats EXCEPT !.mode_matched = FALSE]
                            /\ fmOut' = [op |-> "update", result |-> "ERROR_NOT_FOUND",
                                         source_fps |-> detected_fps, mode |-> best_mode]
                            /\ UNCHANGED m_current_mode

(***************************************************************************)
(* capture::DeckLinkCapture (src/src/capture/decklink_capture.cpp).        *)
(* Timestamps are in units of 100 microseconds.  The frame data, the HDR   *)
(* metadata and Stats::current_fps (a wall-clock measurement) are left out.*)
(***************************************************************************)
\* static constexpr size_t MAX_QUEUE_SIZE
MAX_QUEUE_SIZE == 5

\* the distances between two frames' hardware timestamps: 25 fps exactly,
\* 25 fps with 1% jitter, and a frame that arrives 10% late
Intervals == {400, 404, 440}

\* DeckLinkCapture(): the default member initializers
CapInit ==
    /\ cap_initialized = FALSE
    /\ m_running = FALSE
    /\ m_frame_queue = <<>>
    /\ capStats = [frames_captured |-> 0, frames_dropped |-> 0]
    /\ m_frame_intervals = <<>>
    /\ m_detected_frame_rate = Frac(0, 1)
    /\ m_frame_rate_stable = FALSE
    /\ m_last_pts = 0
    /\ capOut = [op |-> "none", result |-> "SUCCESS"]
    /\ sourcePts = 0
    /\ sourceIntervals = <<>>

\* the members of the frame rate detection: no function of the class
\* assigns them
DetectionKept ==
    UNCHANGED <<m_frame_intervals, m_detected_frame_rate, m_frame_rate_stable, m_last_pts>>

\* DeckLinkCapture::initialize; device_found: the DeckLink device exists and
\* accepts the configuration
capInitialize(device_found) ==
    /\ IF cap_initialized
       THEN /\ capOut' = [op |-> "initialize", result |-> "SUCCESS"]
            /\ UNCHANGED cap_initialized
       ELSE /\ cap_initialized' = device_found
            /\ capOut' = [op |-> "initialize",
                          result |-> IF device_found THEN "SUCCESS" ELSE "ERROR_GENERIC"]
    /\ DetectionKept
    /\ UNCHANGED <<m_running, m_frame_queue, capStats, sourcePts, sourceIntervals>>
    /\ UNCHANGED notCap

\* DeckLinkCapture::start; streams_ok: StartStreams succeeds
capStart(streams_ok) ==
    /\ IF ~cap_initialized
       THEN /\ capOut' = [op |-> "start", result |-> "ERROR_NOT_INITIALIZED"]
            /\ UNCHANGED <<m_running, sourcePts, sourceIntervals>>
       ELSE IF m_running
       THEN /\ capOut' = [op |-> "start", result |-> "SUCCESS"]
            /\ UNCHANGED <<m_running, sourcePts, sourceIntervals>>
       ELSE IF ~streams_ok
       THEN /\ capOut' = [op |-> "start", result |-> "ERROR_GENERIC"]
            /\ UNCHANGED <<m_running, sourcePts, sourceIntervals>>
       ELSE /\ m_running' = TRUE
            /\ capOut' = [op |-> "start", result |-> "SUCCESS"]
            \* a new stream: the history of delivered frames starts again
            /\ sourcePts' = 0
            /\ sourceIntervals' = <<>>
    /\ DetectionKept
    /\ UNCHANGED <<cap_initialized, m_frame_queue, capStats>>
    /\ UNCHANGED notCap

\* DeckLinkCapture::stop
capStop ==
    /\ IF ~m_running
       THEN UNCHANGED <<m_running, m_frame_queue>>
       ELSE /\ m_running' = FALSE
            /\ m_frame_queue' = <<>>
    /\ capOut' = [op |-> "stop", result |-> "SUCCESS"]
    /\ DetectionKept
    /\ UNCHANGED <<cap_initialized, capStats, sourcePts, sourceIntervals>>
    /\ UNCHANGED notCap

\* the last FrameRateSamples intervals after one more
PushInterval(intervals, interval) ==
    LET all == Append(intervals, interval)
    IN  IF Len(all) > FrameRateSamples THEN Tail(all) ELSE all

\* DeckLinkCapture::onFrameReceived, called by VideoInputFrameArrived with
\* the frame's hardware timestamp
onFrameReceived(pts_ns) ==
    /\ capStats.frames_captured < MaxCaptured
    /\ IF ~m_running
       THEN UNCHANGED <<m_frame_queue, capStats, sourcePts, sourceIntervals>>
       ELSE /\ m_frame_queue' =
                   Append(IF Len(m_frame_queue) >= MAX_QUEUE_SIZE
                          THEN Tail(m_frame_queue) ELSE m_frame_queue,
                          capStats.frames_captured + 1)
            /\ capStats' =
                   [frames_captured |-> capStats.frames_captured + 1,
                    frames_dropped |-> IF Len(m_frame_queue) >= MAX_QUEUE_SIZE
                                       THEN capStats.frames_dropped + 1
                                       ELSE capStats.frames_dropped]
            /\ sourcePts' = pts_ns
            /\ sourceIntervals' = IF sourcePts = 0 THEN <<>>
                                  ELSE PushInterval(sourceIntervals, pts_ns - sourcePts)
    /\ capOut' = [op |-> "onFrameReceived", result |-> "SUCCESS"]
    /\ DetectionKept
    /\ UNCHANGED <<cap_initialized, m_running>>
    /\ UNCHANGED notCap

\* DeckLinkCapture::getFrame, when no frame arrives during the wait
getFrame ==
    /\ IF m_frame_queue = <<>>
       THEN /\ capOut' = [op |-> "getFrame", result |-> "ERROR_TIMEOUT"]
            /\ UNCHANGED m_frame_queue
       ELSE /\ m_frame_queue' = Tail(m_frame_queue)
            /\ capOut' = [op |-> "getFrame", result |-> "SUCCESS",
                          frame |-> Head(m_frame_queue)]
    /\ DetectionKept
    /\ UNCHANGED <<cap_initialized, m_running, capStats, sourcePts, sourceIntervals>>
    /\ UNCHANGED notCap

\* DeckLinkCapture::isFrameRateStable
isFrameRateStable == m_frame_rate_stable

\* DeckLinkCapture::getDetectedFrameRate
getDetectedFrameRate == m_detected_frame_rate

(***************************************************************************)
(* display::DRMDisplay::pageFlip (src/src/display/drm_display.cpp).        *)
(* The function holds no lock and m_page_flip_pending is a plain bool, so  *)
(* the calls of two threads interleave at its reads, writes and system     *)
(* calls.  Frame times are left out.                                       *)
(***************************************************************************)
\* the threads that present frames
Threads == {"t1", "t2"}

DRMInit ==
    /\ drm_initialized = FALSE
    /\ m_page_flip_pending = FALSE
    /\ drmStats = [frames_presented |-> 0, missed_vblanks |-> 0]
    /\ kernelFlip = FALSE
    /\ flipEvents = 0
    /\ pc = [t \in Threads |-> "idle"]
    /\ flipResult = [t \in Threads |-> "none"]
    /\ flipCalls = 0

\* DRMDisplay::initialize; device_ok: the card, connector, encoder, CRTC and
\* mode are found
drmInitialize(device_ok) ==
    /\ \A t \in Threads : pc[t] = "idle"
    /\ drm_initialized' = (drm_initialized \/ device_ok)
    /\ UNCHANGED <<m_page_flip_pending, drmStats, kernelFlip, flipEvents, pc,
                   flipResult, flipCalls>>
    /\ UNCHANGED notDRM

\* DRMDisplay::shutdown, once no thread is presenting; closing the device
\* discards its queued flip and events
drmShutdown ==
    /\ \A t \in Threads : pc[t] = "idle"
    /\ IF drm_initialized
       THEN /\ drm_initialized' = FALSE
            /\ kernelFlip' = FALSE
            /\ flipEvents' = 0
       ELSE UNCHANGED <<drm_initialized, kernelFlip, flipEvents>>
    /\ UNCHANGED <<m_page_flip_pending, drmStats, pc, flipResult, flipCalls>>
    /\ UNCHANGED notDRM

\* pageFlip, entry: the tests of m_initialized and m_page_flip_pending
pageFlipEnter(t) ==
    /\ pc[t] = "idle"
    /\ flipCalls < MaxFlips
    /\ flipCalls' = flipCalls + 1
    /\ IF ~drm_initialized
       THEN /\ flipResult' = [flipResult EXCEPT ![t] = "ERROR_NOT_INITIALIZED"]
            /\ UNCHANGED pc
       ELSE IF m_page_flip_pending
       THEN /\ flipResult' = [flipResult EXCEPT ![t] = "ERROR_BUSY"]
            /\ UNCHANGED pc
       ELSE /\ pc' = [pc EXCEPT ![t] = "flip"]
            /\ flipResult' = [flipResult EXCEPT ![t] = "none"]
    /\ UNCHANGED <<drm_initialized, m_page_flip_pending, drmStats, kernelFlip, flipEvents>>
    /\ UNCHANGED notDRM

\* pageFlip, drmModePageFlip: the kernel refuses a flip while one is queued
\* (EBUSY), and may refuse for other reasons (accepted = FALSE)
pageFlipSubmit(t, accepted) ==
    /\ pc[t] = "flip"
    /\ IF kernelFlip \/ ~accepted
       THEN /\ pc' = [pc EXCEPT ![t] = "idle"]
            /\ flipResult' = [flipResult EXCEPT ![t] = "ERROR_GENERIC"]
            /\ UNCHANGED kernelFlip
       ELSE /\ kernelFlip' = TRUE
            /\ pc' = [pc EXCEPT ![t] = "mark"]
            /\ UNCHANGED flipResult
    /\ UNCHANGED <<drm_initialized, m_page_flip_pending, drmStats, flipEvents, flipCalls>>
    /\ UNCHANGED notDRM

\* pageFlip: m_page_flip_pending = true
pageFlipMark(t) ==
    /\ pc[t] = "mark"
    /\ m_page_flip_pending' = TRUE
    /\ pc' = [pc EXCEPT ![t] = "poll"]
    /\ UNCHANGED <<drm_initialized, drmStats, kernelFlip, flipEvents, flipResult, flipCalls>>
    /\ UNCHANGED notDRM

\* pageFlip, from poll to the return; poll_ret is poll's result: negative,
\* 0 after a second without an event, positive when an event is readable
pageFlipWait(t, poll_ret) ==
    /\ pc[t] = "poll"
    /\ poll_ret > 0 => flipEvents > 0
    /\ poll_ret = 0 => flipEvents = 0
    /\ m_page_flip_pending' = FALSE
    /\ pc' = [pc EXCEPT ![t] = "idle"]
    /\ IF poll_ret < 0
       THEN /\ flipResult' = [flipResult EXCEPT ![t] = "ERROR_GENERIC"]
            /\ UNCHANGED <<drmStats, flipEvents>>
       ELSE IF poll_ret = 0
       THEN /\ flipResult' = [flipResult EXCEPT ![t] = "ERROR_TIMEOUT"]
            /\ drmStats' = [drmStats EXCEPT !.missed_vblanks = @ + 1]
            /\ UNCHANGED flipEvents
       ELSE \* drmHandleEvent reads the events and calls pageFlipHandler
            /\ flipEvents' = 0
            /\ drmStats' = [drmStats EXCEPT !.frames_presented = @ + 1]
            /\ flipResult' = [flipResult EXCEPT ![t] = "SUCCESS"]
    /\ UNCHANGED <<drm_initialized, kernelFlip, flipCalls>>
    /\ UNCHANGED notDRM

\* the display's vertical blanking: the queued flip completes and its event
\* becomes readable
vblank ==
    /\ kernelFlip
    /\ kernelFlip' = FALSE
    /\ flipEvents' = flipEvents + 1
    /\ UNCHANGED <<drm_initialized, m_page_flip_pending, drmStats, pc, flipResult, flipCalls>>
    /\ UNCHANGED notDRM

(***************************************************************************)
(* input::ReceiverControl's volume state (src/src/input/                   *)
(* receiver_control.cpp), the volume overlay of the main loop              *)
(* (src/src/main.cpp) and the VolumeOverlayManager of                      *)
(* src/examples/receiver_volume_example.cpp, registered as the volume      *)
(* callback.  Strings are sequences of characters; opacities are exact     *)
(* fractions.                                                              *)
(***************************************************************************)
\* the clock advances in steps of TickMs
TickMs == 250

\* the steady clock's value when the receiver is connected
StartMs == 1000

HexDigits == <<"0", "1", "2", "3", "4", "5", "6", "7", "8", "9",
               "A", "B", "C", "D", "E", "F">>

IsHexDigit(c) == \E i \in 1..16 : HexDigits[i] = c

HexValue(c) == (CHOOSE i \in 1..16 : HexDigits[i] = c) - 1

RECURSIVE HexPrefix(_, _)
\* the digits std::stoi consumes: the value of the longest prefix of hex digits
HexPrefix(s, acc) ==
    IF s = <<>> \/ ~IsHexDigit(Head(s)) THEN acc
    ELSE HexPrefix(Tail(s), 16 * acc + HexValue(Head(s)))

\* std::stoi(parameter, nullptr, 16); -1 stands for std::invalid_argument
stoi16(s) ==
    IF s = <<>> \/ ~IsHexDigit(Head(s)) THEN -1 ELSE HexPrefix(s, 0)

\* the parameters of the MVL messages a receiver sends
VolumeParameters ==
    { <<>>, <<"N", "/", "A">>, <<"1", "E">>, <<"2", "8">>, <<"U", "P">> }

\* the parameters of the AMT messages a receiver sends
MuteParameters == { <<"0", "0">>, <<"0", "1">> }

NoOverlay == [op |-> "none", drawn |-> FALSE, level |-> 0, muted |-> FALSE,
              opacity |-> Frac(0, 1), at |-> 0, since |-> -1]

RCInit ==
    /\ m_volume_info = [level |-> 0, raw_level |-> 0, muted |-> FALSE,
                        max_volume |-> 80, changed |-> FALSE, last_change_ms |-> 0]
    /\ now_ms = StartMs
    /\ overlayOut = NoOverlay
    /\ ovm_visible = FALSE
    /\ ovm_current_volume = m_volume_info
    /\ ovm_last_change_time = 0
    /\ ovmOut = NoOverlay
    /\ changedAt = -1

\* what was drawn belongs to the frame of that instant
FrameOver ==
    /\ overlayOut' = NoOverlay
    /\ ovmOut' = NoOverlay

\* time passes
advanceClock ==
    /\ now_ms < StartMs + MaxTicks * TickMs
    /\ now_ms' = now_ms + TickMs
    /\ FrameOver
    /\ UNCHANGED <<m_volume_info, ovm_visible, ovm_current_volume,
                   ovm_last_change_time, changedAt>>
    /\ UNCHANGED notRC

\* VolumeOverlayManager::onVolumeChanged, the registered m_volume_callback
onVolumeChanged(volume_info) ==
    /\ ovm_current_volume' = volume_info
    /\ ovm_visible' = TRUE
    /\ ovm_last_change_time' = now_ms

\* ReceiverControl::parseVolumeResponse, called for every MVL message by
\* monitoringThread and queryVolume
parseVolumeResponse(parameter) ==
    /\ IF parameter = <<"N", "/", "A">> \/ parameter = <<>> \/ stoi16(parameter) < 0
       THEN UNCHANGED <<m_volume_info, ovm_visible, ovm_current_volume,
                        ovm_last_change_time, changedAt>>
       ELSE \E raw_level \in {stoi16(parameter)} :
            \E changed \in {m_volume_info.raw_level # raw_level} :
            \E info \in {[m_volume_info EXCEPT
                              !.raw_level = raw_level,
                              !.level = (raw_level * 100) \div m_volume_info.max_volume,
                              !.changed = changed,
                              !.last_change_ms = IF changed THEN now_ms ELSE @]} :
              /\ m_volume_info' = info
              /\ IF changed
                 THEN /\ onVolumeChanged(info)
                      /\ changedAt' = now_ms
                 ELSE UNCHANGED <<ovm_visible, ovm_current_volume,
                                  ovm_last_change_time, changedAt>>
    /\ FrameOver
    /\ UNCHANGED now_ms
    /\ UNCHANGED notRC

\* ReceiverControl::setMaxVolume with a positive max_volume
setMaxVolume(max_volume) ==
    /\ m_volume_info' =
          [m_volume_info EXCEPT
              !.max_volume = max_volume,
              !.level = IF m_volume_info.raw_level > 0
                        THEN (m_volume_info.raw_level * 100) \div max_volume ELSE @]
    /\ FrameOver
    /\ UNCHANGED <<now_ms, ovm_visible, ovm_current_volume, ovm_last_change_time,
                   changedAt>>
    /\ UNCHANGED notRC

\* ReceiverControl::monitoringThread, an AMT message
muteStatus(parameter) ==
    /\ \E info \in {[m_volume_info EXCEPT !.muted = (parameter = <<"0", "1">>),
                                          !.changed = TRUE,
                                          !.last_change_ms = now_ms]} :
          /\ m_volume_info' = info
          /\ onVolumeChanged(info)
    /\ changedAt' = now_ms
    /\ FrameOver
    /\ UNCHANGED now_ms
    /\ UNCHANGED notRC

\* main's processing loop, one iteration with the receiver enabled: the
\* volume overlay
renderVolumeOverlay ==
    /\ \E volume_info \in {m_volume_info} :
       \E elapsed \in {now_ms - volume_info.last_change_ms} :
          overlayOut' =
              IF volume_info.changed /\ elapsed < 3000
              THEN [op |-> "frame", drawn |-> TRUE, level |-> volume_info.level,
                    muted |-> volume_info.muted,
                    opacity |-> IF elapsed > 2500 THEN Frac(500 - (elapsed - 2500), 500)
                                ELSE Frac(1, 1),
                    at |-> now_ms, since |-> changedAt]
              ELSE [NoOverlay EXCEPT !.op = "frame", !.at = now_ms, !.since = changedAt]
    /\ UNCHANGED <<m_volume_info, now_ms, ovm_visible, ovm_current_volume,
                   ovm_last_change_time, ovmOut, changedAt>>
    /\ UNCHANGED notRC

\* VolumeOverlayManager::update
overlayUpdate ==
    /\ IF ~ovm_visible
       THEN /\ ovmOut' = [NoOverlay EXCEPT !.op = "update", !.at = now_ms, !.since = changedAt]
            /\ UNCHANGED ovm_visible
       ELSE \E elapsed_ms \in {now_ms - ovm_last_change_time} :
            IF elapsed_ms > 3000 + 500
            THEN /\ ovm_visible' = FALSE
                 /\ ovmOut' = [NoOverlay EXCEPT !.op = "update", !.at = now_ms,
                                                !.since = changedAt]
            ELSE /\ ovmOut' = [op |-> "update", drawn |-> TRUE,
                               level |-> ovm_current_volume.level,
                               muted |-> ovm_current_volume.muted,
                               opacity |-> IF elapsed_ms > 3000
                                           THEN Frac(500 - (elapsed_ms - 3000), 500)
                                           ELSE Frac(1, 1),
                               at |-> now_ms, since |-> changedAt]
                 /\ UNCHANGED ovm_visible
    /\ UNCHANGED <<m_volume_info, now_ms, overlayOut, ovm_current_volume,
                   ovm_last_change_time, changedAt>>
    /\ UNCHANGED notRC

(***************************************************************************)
(* ReceiverControl::buildEISCPPacket and ReceiverControl::parseEISCPPacket *)
(* (src/src/input/receiver_control.cpp).  A string is the sequence of its  *)
(* bytes, a packet a sequence of bytes; packet[i] of the source is         *)
(* packet[i + 1] here.                                                     *)
(***************************************************************************)
\* the bytes strings are made of: 'A', '\r', '\n'
Alphabet == {65, 13, 10}

\* the strings of length lo..hi over the alphabet
Strings(lo, hi) == UNION { [1..n -> Alphabet] : n \in lo..hi }

\* "MVL"
MVL == <<77, 86, 76>>

\* "UP"
UP == <<85, 80>>

\* the commands passed to buildEISCPPacket
Commands == Strings(2, MaxCommand) \cup {MVL}

\* the parameters passed to buildEISCPPacket
Parameters == Strings(0, MaxParameter) \cup {UP}

\* "ISCP"
ISCP == <<73, 83, 67, 80>>

\* a uint32_t as four bytes, big-endian
BigEndian(n) ==
    <<(n \div 16777216) % 256, (n \div 65536) % 256, (n \div 256) % 256, n % 256>>

\* a build that ends the data with "\r" alone
buildCROnly(command, parameter) ==
    LET data == <<33, 49>> \o command \o parameter \o <<13>>
    IN  ISCP \o BigEndian(16) \o BigEndian(Len(data)) \o <<1, 0, 0, 0>> \o data

\* the terminator buildEISCPPacket appends to the data: "\r\n"
buildEISCPPacket(command, parameter) ==
    LET data == <<33, 49>> \o command \o parameter \o <<13, 10>>
    IN  ISCP \o BigEndian(16) \o BigEndian(Len(data)) \o <<1, 0, 0, 0>> \o data

NoMessage == [ok |-> FALSE, command |-> <<>>, parameter |-> <<>>]

\* parseEISCPPacket: the return value and the message
parseEISCPPacket(packet) ==
    IF Len(packet) < 21 THEN NoMessage
    ELSE IF SubSeq(packet, 1, 4) # ISCP THEN NoMessage
    ELSE LET data_size == packet[9] * 16777216 + packet[10] * 65536
                          + packet[11] * 256 + packet[12]
         IN  IF Len(packet) < 16 + data_size THEN NoMessage
             ELSE LET data == SubSeq(packet, 19, 16 + data_size - 2)
                  IN  IF Len(data) < 3 THEN NoMessage
                      ELSE [ok |-> TRUE, command |-> SubSeq(data, 1, 3),
                            parameter |-> SubSeq(data, 4, Len(data))]

EISCPInit(commands, parameters) ==
    /\ eiscp_command \in commands
    /\ eiscp_parameter \in parameters
    /\ eiscp_packet = <<>>
    /\ eiscp_message = NoMessage

\* sendCommand: the packet of the command is built
eiscpBuild ==
    /\ eiscp_packet = <<>>
    /\ eiscp_packet' = buildEISCPPacket(eiscp_command, eiscp_parameter)
    /\ UNCHANGED <<eiscp_command, eiscp_parameter, eiscp_message>>
    /\ UNCHANGED notEISCP

\* receiveResponse: the packet is parsed
eiscpParse ==
    /\ eiscp_packet # <<>>
    /\ eiscp_message' = parseEISCPPacket(eiscp_packet)
    /\ UNCHANGED <<eiscp_command, eiscp_parameter, eiscp_packet>>
    /\ UNCHANGED notEISCP

(***************************************************************************)
(* display::EDIDParser::parseEDIDData (src/src/display/edid_parser.cpp).   *)
(* data[i] of the source is data[i + 1] here.  The display modes and the   *)
(* capabilities read from the CEA data blocks are left out; the images     *)
(* explored have no CEA data blocks.                                       *)
(***************************************************************************)
EDID_HEADER_SIZE == 8

EDID_BASE_BLOCK_SIZE == 128

EDID_EXTENSION_BLOCK_SIZE == 128

\* 00 FF FF FF FF FF FF 00
edid_header == <<0, 255, 255, 255, 255, 255, 255, 0>>

RECURSIVE SumRange(_, _, _)
\* bytes[lo] + ... + bytes[hi]
SumRange(bytes, lo, hi) ==
    IF lo > hi THEN 0
    ELSE IF lo = hi THEN bytes[lo]
    ELSE LET mid == (lo + hi) \div 2
         IN  SumRange(bytes, lo, mid) + SumRange(bytes, mid + 1, hi)

\* the sum of the bytes, as the uint8_t the loop of verifyChecksum adds up
ByteSum(bytes) == SumRange(bytes, 1, Len(bytes)) % 256

\* a block of 128 bytes: the given first bytes, zeros, the byte at offset
\* 126, and a last byte that makes the sum zero (good) or one (not good)
Block(first, byte126, good) ==
    LET body == [i \in 1..127 |-> IF i <= Len(first) THEN first[i]
                                  ELSE IF i = 127 THEN byte126 ELSE 0]
        last == (256 - ByteSum(body)) % 256
    IN  Append(body, IF good THEN last ELSE (last + 1) % 256)

\* base blocks: header intact or not, manufactured in week 1 of 2020,
\* announcing 0..MaxExtensions extension blocks, checksum good or not
BaseBlocks ==
    { Block((IF header_ok THEN edid_header ELSE <<1>> \o Tail(edid_header))
            \o <<0, 0, 0, 0, 0, 0, 0, 0, 1, 30>>, extension_count, good) :
        header_ok \in BOOLEAN, extension_count \in 0..MaxExtensions, good \in BOOLEAN }

\* extension blocks: a CEA-861 block (tag 2) without data blocks or a block
\* of another kind (tag 16), checksum good or not
ExtensionBlocks ==
    { Block(<<tag, 3, 0>>, 0, good) : tag \in {2, 16}, good \in BOOLEAN }

RECURSIVE Concat(_)
Concat(blocks) == IF blocks = <<>> THEN <<>> ELSE Head(blocks) \o Concat(Tail(blocks))

\* the first n bytes of an image
Cut(image, n) == IF Len(image) > n THEN SubSeq(image, 1, n) ELSE image

\* the images read from the display: a base block and 0..MaxExtensions
\* extension blocks, whole or cut off after CutSize or 100 bytes
EDIDImages ==
    LET whole == { base \o Concat(exts) :
                     base \in BaseBlocks,
                     exts \in UNION { [1..n -> ExtensionBlocks] : n \in 0..MaxExtensions } }
    IN  whole \cup { Cut(image, CutSize) : image \in whole }
              \cup { Cut(image, 100) : image \in whole }

\* the byte at data[index]; past the end of the buffer the read is out of
\* bounds and yields whatever lies there
ByteAt(data, index, beyond) ==
    IF index < Len(data) THEN data[index + 1] ELSE beyond

\* EDIDParser::verifyChecksum on the size bytes from data + offset
verifyChecksum(data, offset, size, beyond) ==
    ByteSum([i \in 1..size |-> ByteAt(data, offset + i - 1, beyond)]) = 0

RECURSIVE ExtensionLoop(_, _, _, _)
\* the loop over the extension blocks from block i on: the indices of the
\* blocks parsed as CEA-861 and of the blocks skipped for their checksum
ExtensionLoop(data, i, beyond, acc) ==
    IF ~(i < ByteAt(data, 126, beyond) /\ (i + 1) * EDID_BASE_BLOCK_SIZE < Len(data))
    THEN acc
    ELSE LET ext == (i + 1) * EDID_BASE_BLOCK_SIZE
         IN  IF ~verifyChecksum(data, ext, EDID_EXTENSION_BLOCK_SIZE, beyond)
             THEN ExtensionLoop(data, i + 1, beyond,
                                [acc EXCEPT !.skipped = Append(@, i)])
             ELSE IF ByteAt(data, ext, beyond) = 2
             THEN ExtensionLoop(data, i + 1, beyond, [acc EXCEPT !.cea = Append(@, i)])
             ELSE ExtensionLoop(data, i + 1, beyond, acc)

EDIDFailed(result) ==
    [op |-> "parseEDIDData", result |-> result, manufacture_year |-> 0,
     cea |-> <<>>, skipped |-> <<>>]

EDIDInit ==
    /\ edid_data = <<>>
    /\ edidOut = [EDIDFailed("SUCCESS") EXCEPT !.op = "none"]

\* EDIDParser::parseEDIDData(data, size, modes); beyond: the value of the
\* bytes behind the buffer
parseEDIDData(data, beyond) ==
    /\ edid_data' = data
    /\ edidOut' =
          IF Len(data) < EDID_BASE_BLOCK_SIZE THEN EDIDFailed("ERROR_INVALID_DATA")
          ELSE IF SubSeq(data, 1, EDID_HEADER_SIZE) # edid_header
          THEN EDIDFailed("ERROR_INVALID_DATA")
          ELSE IF ~verifyChecksum(data, 0, EDID_BASE_BLOCK_SIZE, beyond)
          THEN EDIDFailed("ERROR_INVALID_DATA")
          ELSE LET blocks == ExtensionLoop(data, 0, beyond, [cea |-> <<>>, skipped |-> <<>>])
               IN  [op |-> "parseEDIDData", result |-> "SUCCESS",
                    manufacture_year |-> 1990 + data[18],
                    cea |-> blocks.cea, skipped |-> blocks.skipped]
    /\ UNCHANGED notEDID

(***************************************************************************)
(* processing::ProcessingPipeline.  The pipeline owns the BlackBarDetector  *)
(* and the MenuSystem above; the NLS shader, the tone mapper and the OSD    *)
(* compositor are given by the results they return.  Button presses reach   *)
(* the menu through handleButton before the frame's update.                 *)
(***************************************************************************)
\* ProcessingConfig: black_bars (with auto_crop) and nls.enabled
DefaultPipelineConfig ==
    [black_bars |-> [DefaultBBConfig EXCEPT !.crop_smoothing = FALSE],
     auto_crop |-> TRUE, nls_enabled |-> TRUE]

\* the configurations given to initialize and updateConfig
PipelineConfigs ==
    { DefaultPipelineConfig,
      [DefaultPipelineConfig EXCEPT !.black_bars.manual_crop = TRUE],
      [DefaultPipelineConfig EXCEPT !.black_bars.enabled = FALSE],
      [DefaultPipelineConfig EXCEPT !.nls_enabled = FALSE] }

\* the results a substage returns
StageResults == {"SUCCESS", "ERROR_GENERIC"}

\* what a call on the pipeline did: its result, the substage that failed, whether
\* output was assigned, whether applyCrop ran, and with which crop on which input
PipelineOut(op, result, failed, delivered, cropped, crop, input) ==
    [op |-> op, result |-> result, failed |-> failed, delivered |-> delivered,
     cropped |-> cropped, crop |-> crop, width |-> input.width, height |-> input.height,
     is_hdr |-> FALSE, tone_mapped |-> FALSE]

\* that, for a processFrame that reached stage 4 on a frame that is HDR or not,
\* and called applyToneMapping or passed the frame through
WithTone(out, is_hdr, tone_mapped) ==
    [out EXCEPT !.is_hdr = is_hdr, !.tone_mapped = tone_mapped]

NoInput == [width |-> 0, height |-> 0]

Idle(op, result) == PipelineOut(op, result, "none", FALSE, FALSE, <<0, 0, 0, 0>>, NoInput)

PPInit ==
    /\ pipeline_initialized = FALSE
    /\ pipeline_config = DefaultPipelineConfig
    /\ m_nls_shader = FALSE
    /\ osd_system = FALSE
    /\ frames_processed = 0
    /\ total_frame_time_ms = 0
    /\ tone_frames_processed = 0
    /\ ppOut = Idle("none", "SUCCESS")

\* createDefaultOSDMenu, reduced to one tab
DefaultOSDMenu == BuildMenu(<<MaxItems>>, <<>>)

\* initialize(config) with a Vulkan context and a tone mapper that initialize:
\* initializeProcessors creates the detector, the NLS shader if enabled and,
\* if the IR remote, the OSD renderer and the compositor (osd) initialize, the
\* menu system with the default menu
pipelineInitialize(config, osd) ==
    IF pipeline_initialized
    THEN /\ ppOut' = Idle("initialize", "SUCCESS")
         /\ UNCHANGED <<pipeline_initialized, pipeline_config, m_nls_shader, osd_system,
                        frames_processed, total_frame_time_ms, tone_frames_processed,
                        bbVars, menuVars>>
         /\ UNCHANGED notPipeline
    ELSE /\ pipeline_initialized' = TRUE
         /\ pipeline_config' = config
         /\ m_nls_shader' = config.nls_enabled
         /\ osd_system' = osd
         /\ ppOut' = Idle("initialize", "SUCCESS")
         /\ m_history' = <<>>
         /\ m_current_crop' = NoCrop
         /\ m_stable_crop' = NoCrop
         /\ m_bootstrap_crop' = NoCrop
         /\ m_bootstrap_complete' = FALSE
         /\ bbStats' = [frames_analyzed |-> 0]
         /\ bbOut' = [op |-> "none", path |-> "none"]
         /\ UNCHANGED symmetricOnly
         /\ IF osd
            THEN /\ menu_initialized' = TRUE
                 /\ callback_set' = TRUE
                 /\ m_config' = [timeout_ms |-> MaxTimeout]
                 /\ m_menu' = DefaultOSDMenu
                 /\ m_current_tab' = 0
                 /\ m_current_item' = 0
                 /\ m_scroll_offset' = 0
                 /\ m_visible' = FALSE
                 /\ m_adjusting_value' = FALSE
                 /\ m_timeout_accumulator' = 0
                 /\ hung' = FALSE
                 /\ menuOut' = Called("loadMenu")
                 /\ idleTime' = 0
            ELSE UNCHANGED menuVars
         /\ tone_frames_processed' = 0
         /\ UNCHANGED <<frames_processed, total_frame_time_ms>>
         /\ UNCHANGED notPipeline

\* shutdown(): the OSD system and the processors are destroyed
pipelineShutdown ==
    /\ IF ~pipeline_initialized
       THEN UNCHANGED <<pipeline_initialized, m_nls_shader, osd_system>>
       ELSE /\ pipeline_initialized' = FALSE
            /\ m_nls_shader' = FALSE
            /\ osd_system' = FALSE
    /\ ppOut' = Idle("shutdown", "SUCCESS")
    /\ UNCHANGED <<pipeline_config, frames_processed, total_frame_time_ms,
                   tone_frames_processed, bbVars, menuVars>>
    /\ UNCHANGED notPipeline

updateConfig(config) ==
    /\ pipeline_config' = config
    /\ ppOut' = Idle("updateConfig", "SUCCESS")
    /\ UNCHANGED <<pipeline_initialized, m_nls_shader, osd_system, frames_processed,
                   total_frame_time_ms, tone_frames_processed, bbVars, menuVars>>
    /\ UNCHANGED notPipeline

\* detectBlackBars(frame)
detectBlackBars(frame) ==
    IF ~pipeline_config.black_bars.enabled
    THEN UNCHANGED bbVars
    ELSE AnalyzeFrame(frame, pipeline_config.black_bars)

\* getCropRegion() once detectBlackBars has run
CropInForce == Insets(m_stable_crop')

\* stage 2 calls applyCrop
CropApplies ==
    /\ pipeline_config.black_bars.enabled
    /\ pipeline_config.auto_crop
    /\ \E i \in 1..4 : CropInForce[i] > 0

\* processFrame returning the error of the substage that failed
StageFails(input, is_hdr, stage, result) ==
    /\ ppOut' = WithTone(PipelineOut("processFrame", result, stage, FALSE,
                                     CropApplies, CropInForce, input),
                         is_hdr, stage = "tone_mapping")
    /\ UNCHANGED <<frames_processed, total_frame_time_ms, tone_frames_processed,
                   menuVars>>

\* a stage 4 that tone-maps every frame
ToneMapsAlways(is_hdr) == TRUE

\* stage 4 calls applyToneMapping
ToneMaps(is_hdr) == is_hdr

\* stage 5 and the statistics: the frame is delivered, with the OSD over it
\* if the menu is visible and compositeOSD succeeds, without it otherwise
Deliver(input, is_hdr, elapsed) ==
    /\ IF osd_system /\ m_visible
       THEN /\ Update(total_frame_time_ms)
            /\ \E osd_result \in StageResults :
                  ppOut' = WithTone(PipelineOut("processFrame", "SUCCESS",
                                        IF osd_result = "SUCCESS" THEN "none" ELSE "osd",
                                        TRUE, CropApplies, CropInForce, input),
                                    is_hdr, ToneMaps(is_hdr))
       ELSE /\ ppOut' = WithTone(PipelineOut("processFrame", "SUCCESS", "none", TRUE,
                                             CropApplies, CropInForce, input),
                                 is_hdr, ToneMaps(is_hdr))
            /\ UNCHANGED menuVars
    /\ tone_frames_processed' = IF ToneMaps(is_hdr) THEN tone_frames_processed + 1
                                ELSE tone_frames_processed
    /\ total_frame_time_ms' = elapsed
    /\ frames_processed' = frames_processed + 1

\* processFrame(input, output); is_hdr is input.hdr_metadata.type != NONE and
\* elapsed the time the call measures for itself
processFrame(input, is_hdr, elapsed) ==
    /\ frames_processed < MaxProcessed
    /\ bbStats.frames_analyzed <= MaxProcessed
    /\ IF ~pipeline_initialized
       THEN /\ ppOut' = Idle("processFrame", "ERROR_NOT_INITIALIZED")
            /\ UNCHANGED <<frames_processed, total_frame_time_ms, tone_frames_processed,
                           bbVars, menuVars>>
       ELSE /\ detectBlackBars(input)
            /\ \E nls_result \in IF pipeline_config.nls_enabled /\ m_nls_shader
                                 THEN StageResults ELSE {"SUCCESS"} :
               \E tone_result \in IF ToneMaps(is_hdr) THEN StageResults ELSE {"SUCCESS"} :
                  IF nls_result # "SUCCESS"
                  THEN StageFails(input, is_hdr, "nls", nls_result)
                  ELSE IF tone_result # "SUCCESS"
                  THEN StageFails(input, is_hdr, "tone_mapping", tone_result)
                  ELSE Deliver(input, is_hdr, elapsed)
    /\ UNCHANGED <<pipeline_initialized, pipeline_config, m_nls_shader, osd_system>>
    /\ UNCHANGED notPipeline

(***************************************************************************)
(* main (src/src/main.cpp): the processing loop and the shutdown sequence.  *)
(* The state is that after initialization, with the capture started.  The   *)
(* capture is reduced to its queue length; the pipeline and the display are *)
(* given by the results processFrame and present return.                    *)
(***************************************************************************)
\* the values of Result other than SUCCESS and ERROR_TIMEOUT
Failures == {"ERROR_GENERIC", "ERROR_NOT_INITIALIZED", "ERROR_DEVICE_LOST"}

\* what an iteration did; a call not made has result "none"
Iteration(get, process, present) ==
    [op |-> "iteration", get |-> get, process |-> process, present |-> present]

\* main has entered its loop; enabled: whether the receiver was initialized
MainInit(enabled) ==
    /\ g_running = TRUE
    /\ main_pc = "loop"
    /\ frame_count = 0
    /\ receiver_enabled \in enabled
    /\ capture_running = TRUE
    /\ capture_queued = 0
    /\ quiesced = <<>>
    /\ mainOut = [op |-> "none", get |-> "none", process |-> "none", present |-> "none"]

\* SIGINT or SIGTERM
signal_handler ==
    /\ main_pc # "done"
    /\ g_running' = FALSE
    /\ UNCHANGED <<main_pc, frame_count, receiver_enabled, capture_running,
                   capture_queued, quiesced, mainOut>>
    /\ UNCHANGED notMain

\* the capture callback queues a frame, dropping the oldest of a full queue
frameArrives ==
    /\ capture_running
    /\ capture_queued' = IF capture_queued >= MAX_QUEUE_SIZE
                         THEN MAX_QUEUE_SIZE ELSE capture_queued + 1
    /\ UNCHANGED <<g_running, main_pc, frame_count, receiver_enabled, capture_running,
                   quiesced, mainOut>>
    /\ UNCHANGED notMain

\* capture.getFrame(input_frame, 100) on a queue of that length
GetFrameResult(queued) == IF queued = 0 THEN "ERROR_TIMEOUT" ELSE "SUCCESS"

\* every failure of getFrame ends the loop
BreaksOnFailure(result) == result # "SUCCESS"

\* the loop's break: getFrame failed other than by timeout
Breaks(result) == result # "ERROR_TIMEOUT" /\ result # "SUCCESS"

\* one iteration of while (g_running)
iteration(process_result, present_result) ==
    /\ main_pc = "loop"
    /\ g_running
    /\ frame_count < MaxLoops
    /\ \E get_result \in {GetFrameResult(capture_queued)} :
          IF Breaks(get_result)
          THEN /\ main_pc' = "shutdown"
               /\ mainOut' = Iteration(get_result, "none", "none")
               /\ UNCHANGED <<frame_count, capture_queued>>
          ELSE IF get_result = "ERROR_TIMEOUT"
          THEN /\ mainOut' = Iteration(get_result, "none", "none")
               /\ UNCHANGED <<main_pc, frame_count, capture_queued>>
          ELSE /\ capture_queued' = capture_queued - 1
               /\ UNCHANGED main_pc
               /\ IF process_result # "SUCCESS"
                  THEN /\ mainOut' = Iteration(get_result, process_result, "none")
                       /\ UNCHANGED frame_count
                  ELSE IF present_result # "SUCCESS"
                  THEN /\ mainOut' = Iteration(get_result, process_result, present_result)
                       /\ UNCHANGED frame_count
                  ELSE /\ mainOut' = Iteration(get_result, process_result, present_result)
                       /\ frame_count' = frame_count + 1
    /\ UNCHANGED <<g_running, receiver_enabled, capture_running, quiesced>>
    /\ UNCHANGED notMain

\* while (g_running) finds the flag cleared
loopExit ==
    /\ main_pc = "loop"
    /\ ~g_running
    /\ main_pc' = "shutdown"
    /\ UNCHANGED <<g_running, frame_count, receiver_enabled, capture_running,
                   capture_queued, quiesced, mainOut>>
    /\ UNCHANGED notMain

\* the calls of the shutdown sequence, in the order of the code
ShutdownSequence ==
    <<"capture.stop", "receiver.shutdown", "menu.shutdown", "ir_remote.shutdown",
      "osd_renderer.shutdown", "pipeline.shutdown", "display.shutdown",
      "capture.shutdown">>

\* the calls that sequence makes: receiver.shutdown only if (receiver_enabled)
ShutdownCalls ==
    IF receiver_enabled THEN ShutdownSequence
    ELSE <<ShutdownSequence[1]>> \o SubSeq(ShutdownSequence, 3, Len(ShutdownSequence))

\* the next call of the shutdown sequence; DeckLinkCapture::stop clears
\* m_running and the frame queue
shutdownStep ==
    /\ main_pc = "shutdown"
    /\ \E call \in {ShutdownCalls[Len(quiesced) + 1]} :
          /\ quiesced' = Append(quiesced, call)
          /\ IF call = "capture.stop"
             THEN /\ capture_running' = FALSE
                  /\ capture_queued' = 0
             ELSE UNCHANGED <<capture_running, capture_queued>>
    /\ main_pc' = IF Len(quiesced) + 1 = Len(ShutdownCalls) THEN "done" ELSE "shutdown"
    /\ UNCHANGED <<g_running, frame_count, receiver_enabled, mainOut>>
    /\ UNCHANGED notMain

(***************************************************************************)
(* display::DRMDisplay: the mode of the CRTC from initialize to shutdown.   *)
(* The kernel holds the CRTC's mode; drmModeGetCrtc reads it or fails, and  *)
(* drmModeSetCrtc sets it or fails.  The card, the connector and the        *)
(* encoder are found.                                                       *)
(***************************************************************************)
\* the modes of the connector, the preferred one first
CrtcModes ==
    <<DisplayMode(1920, 1080, 60), DisplayMode(1920, 1080, 24),
      DisplayMode(3840, 2160, 24)>>

\* the modes asked for: those and one the connector does not have
RequestedModes ==
    { CrtcModes[i] : i \in 1..Len(CrtcModes) } \cup { DisplayMode(1280, 720, 60) }

\* m_saved_crtc == nullptr
NoCrtc == [valid |-> FALSE, mode |-> NoMode]

DisplayOut(op, result, restored) == [op |-> op, result |-> result, restored |-> restored]

\* the modes a CRTC has when the display is constructed: one of the
\* connector's, or none (the CRTC is inactive)
CrtcStates == { CrtcModes[i] : i \in 1..Len(CrtcModes) } \cup {NoMode}

\* the display is constructed; the CRTC has one of those modes
DMInit(modes) ==
    /\ display_open = FALSE
    /\ crtc_mode \in modes
    /\ m_drm_mode = NoMode
    /\ m_saved_crtc = NoCrtc
    /\ modeBefore = NoMode
    /\ dmOut = DisplayOut("none", "SUCCESS", FALSE)
    /\ m_drm_fd = -1
    /\ drm_objects = {}

\* modesMatch, on modes that are not interlaced
modesMatch(a, b) ==
    /\ a.width = b.width /\ a.height = b.height
    /\ Abs(a.refresh_rate - b.refresh_rate) <= 500

\* the first mode of the connector that matches, 0 if none does
MatchingMode(mode) ==
    IF \E i \in 1..Len(CrtcModes) : modesMatch(CrtcModes[i], mode)
    THEN CHOOSE i \in 1..Len(CrtcModes) :
            /\ modesMatch(CrtcModes[i], mode)
            /\ \A j \in 1..(i - 1) : ~modesMatch(CrtcModes[j], mode)
    ELSE 0

\* selectMode(requested_mode): the index of the mode it selects, 0 if none
selectMode(auto_mode, requested_mode) ==
    IF auto_mode THEN 1 ELSE MatchingMode(requested_mode)

\* the steps of initialize that fail for a reason of the system: open(),
\* drmModeGetResources (both in openDrmDevice), findConnector, findEncoder
InitSteps == {"open", "resources", "connector", "encoder"}

\* the libdrm objects initialize holds once the steps before step are done
ObjectsBefore(step) ==
    IF step \in {"open", "resources"} THEN {}
    ELSE IF step = "connector" THEN {"resources"}
    ELSE IF step = "encoder" THEN {"resources", "connector"}
    ELSE IF step = "crtc" THEN {"resources", "connector", "encoder"}
    ELSE {"resources", "connector", "encoder", "crtc"}

\* initialize's failure at step: the descriptor and the objects it leaves
\* behind (its call of shutdown() returns at once, m_initialized being false)
InitFails(step, result) ==
    /\ dmOut' = DisplayOut("initialize", result, FALSE)
    /\ m_drm_fd' = IF step \in {"open", "resources"} THEN -1 ELSE 3
    /\ drm_objects' = drm_objects \cup ObjectsBefore(step)

\* initialize(config); failed_step: the step that fails for a reason of the
\* system, if any; crtc_read and saved_read tell whether the two
\* drmModeGetCrtc calls of findCrtc return a CRTC
displayInitialize(auto_mode, requested_mode, failed_step, crtc_read, saved_read) ==
    /\ IF display_open
       THEN /\ dmOut' = DisplayOut("initialize", "SUCCESS", FALSE)
            /\ UNCHANGED <<display_open, m_drm_mode, m_saved_crtc, modeBefore,
                           m_drm_fd, drm_objects>>
       ELSE IF failed_step \in InitSteps
       THEN /\ InitFails(failed_step,
                         IF failed_step = "open" THEN "ERROR_OPEN_FAILED"
                         ELSE IF failed_step = "resources" THEN "ERROR_GENERIC"
                         ELSE "ERROR_NOT_FOUND")
            /\ UNCHANGED <<display_open, m_drm_mode, m_saved_crtc, modeBefore>>
       ELSE IF ~crtc_read
       THEN /\ InitFails("crtc", "ERROR_NOT_FOUND")
            /\ UNCHANGED <<display_open, m_drm_mode, m_saved_crtc, modeBefore>>
       ELSE /\ m_saved_crtc' = IF saved_read THEN [valid |-> TRUE, mode |-> crtc_mode]
                               ELSE NoCrtc
            /\ \E selected \in {selectMode(auto_mode, requested_mode)} :
                  IF selected = 0
                  THEN /\ InitFails("mode", "ERROR_NOT_FOUND")
                       /\ UNCHANGED <<display_open, m_drm_mode, modeBefore>>
                  ELSE /\ m_drm_mode' = CrtcModes[selected]
                       /\ display_open' = TRUE
                       /\ modeBefore' = crtc_mode
                       /\ dmOut' = DisplayOut("initialize", "SUCCESS", FALSE)
                       /\ m_drm_fd' = 3
                       /\ drm_objects' = drm_objects \cup ObjectsBefore("mode")
    /\ UNCHANGED crtc_mode
    /\ UNCHANGED notDM

\* setMode(mode) on an open display: setModeInternal leaves the CRTC alone
setMode(mode) ==
    /\ display_open
    /\ \E selected \in {MatchingMode(mode)} :
          IF selected = 0
          THEN /\ dmOut' = DisplayOut("setMode", "ERROR_NOT_FOUND", FALSE)
               /\ UNCHANGED m_drm_mode
          ELSE /\ m_drm_mode' = CrtcModes[selected]
               /\ dmOut' = DisplayOut("setMode", "SUCCESS", FALSE)
    /\ UNCHANGED <<display_open, crtc_mode, m_saved_crtc, modeBefore, m_drm_fd,
                   drm_objects>>
    /\ UNCHANGED notDM

\* a restoration that sets the mode selected last
RestoredSelected(saved, selected) == selected

\* the mode drmModeSetCrtc is given by shutdown
RestoredMode(saved, selected) == saved.mode

\* shutdown(); set_ok tells whether drmModeSetCrtc succeeds
displayShutdown(set_ok) ==
    /\ IF ~display_open
       THEN /\ dmOut' = DisplayOut("shutdown", "none", FALSE)
            /\ UNCHANGED <<display_open, crtc_mode, m_saved_crtc, m_drm_fd,
                           drm_objects>>
       ELSE /\ display_open' = FALSE
            /\ m_drm_fd' = -1
            /\ drm_objects' = {}
            /\ m_saved_crtc' = NoCrtc
            /\ crtc_mode' = IF m_saved_crtc.valid /\ set_ok
                            THEN RestoredMode(m_saved_crtc, m_drm_mode)
                            ELSE crtc_mode
            /\ dmOut' = DisplayOut("shutdown", "SUCCESS", m_saved_crtc.valid /\ set_ok)
    /\ UNCHANGED <<m_drm_mode, modeBefore>>
    /\ UNCHANGED notDM

(***************************************************************************)
(* sync::MasterClock.  CLOCK_MONOTONIC_RAW and steady_clock are two clocks  *)
(* of the system: each never goes back, and they advance at their own rates *)
(* (the second is slewed by NTP, the first is not).                         *)
(***************************************************************************)
ClockInit ==
    /\ raw_ns = 0
    /\ steady_ns = 0
    /\ m_now_calls = 0
    /\ clockOut = [op |-> "none", value |-> 0, source |-> "none", previous |-> -1]

\* time passes: each clock advances by its own amount
clockAdvance(raw_step, steady_step) ==
    /\ raw_ns + raw_step <= MaxClock
    /\ steady_ns + steady_step <= MaxClock
    /\ raw_step + steady_step > 0
    /\ raw_ns' = raw_ns + raw_step
    /\ steady_ns' = steady_ns + steady_step
    /\ UNCHANGED <<m_now_calls, clockOut>>
    /\ UNCHANGED notClock

\* getRawTime(); read_ok tells whether clock_gettime(CLOCK_MONOTONIC_RAW) succeeds
getRawTime(read_ok) == IF read_ok THEN raw_ns ELSE steady_ns

\* now()
clockNow(read_ok) ==
    /\ m_now_calls < MaxCalls
    /\ m_now_calls' = m_now_calls + 1
    /\ clockOut' = [op |-> "now", value |-> getRawTime(read_ok),
                    source |-> IF read_ok THEN "raw" ELSE "steady",
                    previous |-> IF clockOut.op = "now" THEN clockOut.value ELSE -1]
    /\ UNCHANGED <<raw_ns, steady_ns>>
    /\ UNCHANGED notClock

(***************************************************************************)
(* capture::FrameBuffer called from distinct threads                        *)
(* (src/src/capture/frame_buffer.cpp).  A thread's step runs from one       *)
(* acquisition of a mutex to the next one that can block; what a thread     *)
(* does while it holds m_mutex is invisible to the others until it lets go. *)
(***************************************************************************)
\* a mutex nobody holds
Free == "free"

\* the thread of each caller: push, pop and getStats
Producer == "producer"
Consumer == "consumer"
Monitor == "monitor"
FBThreads == {Producer, Consumer, Monitor}

\* a thread outside every call
Returned(result) == [pc |-> "idle", frame |-> NoFrame, late |-> FALSE, result |-> result]

\* a thread inside a call, in front of the acquisition named by at
Inside(at, frame, late) == [pc |-> at, frame |-> frame, late |-> late, result |-> "none"]

FBThreadInit ==
    /\ m_mutex = Free
    /\ m_stats_mutex = Free
    /\ fb_thread = [t \in FBThreads |-> Returned("none")]

\* the frame data, the retained frame and the bookkeeping a step leaves alone
ThreadKeeps == UNCHANGED <<m_capacity, fbOut, pushedPTS, poppedPTS, lastPopped, goneIds>>

\* push's BufferedFrame of a frame that arrived at now
Buffered(frame, now) ==
    [frame        |-> DeepCopy(frame, NewBuf),
     arrival_time |-> now,
     target_time  |-> frame.pts,
     is_late      |-> now > frame.pts,
     id           |-> m_stats.frames_pushed + 1]

\* FrameBuffer::push on the producer's thread
threadPush(frame, drop_oldest_on_full, now) ==
    \* lock_guard lock(m_mutex), up to the return or the first stats_lock
    \/ /\ fb_thread[Producer].pc = "idle"
       /\ m_stats.frames_pushed < MaxPush
       /\ clock < MaxCalls
       /\ m_mutex = Free
       /\ clock' = now
       /\ LET full == Len(m_queue) >= m_capacity
          IN IF full /\ ~drop_oldest_on_full
             THEN /\ fb_thread' = [fb_thread EXCEPT ![Producer] = Returned("ERROR_OUT_OF_MEMORY")]
                  /\ UNCHANGED <<m_mutex, m_queue>>
             ELSE IF full /\ m_queue # <<>>
             THEN /\ m_queue' = DropOldest(m_queue)
                  /\ m_mutex' = Producer
                  /\ fb_thread' = [fb_thread EXCEPT ![Producer] =
                                      Inside("push_drop_stats", frame, now > frame.pts)]
             ELSE /\ m_queue' = Enqueue(m_queue, Buffered(frame, now))
                  /\ m_mutex' = Producer
                  /\ fb_thread' = [fb_thread EXCEPT ![Producer] =
                                      Inside("push_stats", frame, now > frame.pts)]
       /\ UNCHANGED <<m_stats_mutex, m_stats, m_has_last_frame, m_last_frame>>
       /\ ThreadKeeps
    \* lock_guard stats_lock(m_stats_mutex) of the drop, then the insertion
    \/ /\ fb_thread[Producer].pc = "push_drop_stats"
       /\ m_stats_mutex = Free
       /\ m_stats' = [m_stats EXCEPT !.frames_dropped = @ + 1]
       /\ m_queue' = Enqueue(m_queue, Buffered(fb_thread[Producer].frame, clock))
       /\ fb_thread' = [fb_thread EXCEPT ![Producer].pc = "push_stats"]
       /\ UNCHANGED <<m_mutex, m_stats_mutex, m_has_last_frame, m_last_frame, clock>>
       /\ ThreadKeeps
    \* lock_guard stats_lock(m_stats_mutex) of the statistics, then the return
    \/ /\ fb_thread[Producer].pc = "push_stats"
       /\ m_stats_mutex = Free
       /\ m_stats' = [m_stats EXCEPT
                        !.frames_pushed = @ + 1,
                        !.frames_late   = @ + (IF fb_thread[Producer].late THEN 1 ELSE 0)]
       /\ m_mutex' = Free
       /\ fb_thread' = [fb_thread EXCEPT ![Producer] = Returned("SUCCESS")]
       /\ UNCHANGED <<m_stats_mutex, m_queue, m_has_last_frame, m_last_frame, clock>>
       /\ ThreadKeeps

\* pop's dequeue: the head becomes the caller's frame and the retained frame
ThreadDequeue ==
    /\ m_queue' = Tail(m_queue)
    /\ m_last_frame' = RetainLast(Front(m_queue), NewBuf)
    /\ m_has_last_frame' = TRUE
    /\ m_mutex' = Consumer
    /\ fb_thread' = [fb_thread EXCEPT ![Consumer] =
                        Inside("pop_stats", Front(m_queue).frame, FALSE)]

\* FrameBuffer::pop on the consumer's thread
threadPop ==
    \* unique_lock lock(m_mutex); an empty queue: wait_for lets go of m_mutex
    \/ /\ fb_thread[Consumer].pc = "idle"
       /\ m_stats.frames_repeated < MaxRepeat
       /\ m_mutex = Free
       /\ IF m_queue = <<>>
          THEN /\ fb_thread' = [fb_thread EXCEPT ![Consumer] = Inside("pop_wait", NoFrame, FALSE)]
               /\ UNCHANGED <<m_mutex, m_queue, m_has_last_frame, m_last_frame>>
          ELSE ThreadDequeue
       /\ UNCHANGED <<m_stats_mutex, m_stats, clock>>
       /\ ThreadKeeps
    \* wait_for returns, on a notification or on the timeout, with m_mutex
    \/ /\ fb_thread[Consumer].pc = "pop_wait"
       /\ m_mutex = Free
       /\ IF m_queue # <<>>
          THEN ThreadDequeue
          ELSE /\ IF m_has_last_frame
                  THEN /\ m_mutex' = Consumer
                       /\ fb_thread' = [fb_thread EXCEPT ![Consumer] =
                                           Inside("pop_repeat_stats",
                                                  RepeatFrame(m_last_frame, NewBuf), FALSE)]
                  ELSE /\ fb_thread' = [fb_thread EXCEPT ![Consumer] = Returned("ERROR_TIMEOUT")]
                       /\ UNCHANGED m_mutex
               /\ UNCHANGED <<m_queue, m_has_last_frame, m_last_frame>>
       /\ UNCHANGED <<m_stats_mutex, m_stats, clock>>
       /\ ThreadKeeps
    \* lock_guard stats_lock(m_stats_mutex) of the repeat or of the dequeue
    \/ /\ fb_thread[Consumer].pc \in {"pop_repeat_stats", "pop_stats"}
       /\ m_stats_mutex = Free
       /\ m_stats' = IF fb_thread[Consumer].pc = "pop_stats"
                     THEN [m_stats EXCEPT !.frames_popped = @ + 1]
                     ELSE [m_stats EXCEPT !.frames_repeated = @ + 1]
       /\ m_mutex' = Free
       /\ fb_thread' = [fb_thread EXCEPT ![Consumer] = Returned("SUCCESS")]
       /\ UNCHANGED <<m_stats_mutex, m_queue, m_has_last_frame, m_last_frame, clock>>
       /\ ThreadKeeps

\* FrameBuffer::getStats on the monitor's thread
threadGetStats ==
    \* lock_guard lock(m_stats_mutex)
    \/ /\ fb_thread[Monitor].pc = "idle"
       /\ m_stats_mutex = Free
       /\ m_stats_mutex' = Monitor
       /\ fb_thread' = [fb_thread EXCEPT ![Monitor] = Inside("stats_queue", NoFrame, FALSE)]
       /\ UNCHANGED <<m_mutex, m_queue, m_stats, m_has_last_frame, m_last_frame, clock>>
       /\ ThreadKeeps
    \* lock_guard queue_lock(m_mutex), then the return
    \/ /\ fb_thread[Monitor].pc = "stats_queue"
       /\ m_mutex = Free
       /\ m_stats_mutex' = Free
       /\ fb_thread' = [fb_thread EXCEPT ![Monitor] = Returned("SUCCESS")]
       /\ UNCHANGED <<m_mutex, m_queue, m_stats, m_has_last_frame, m_last_frame, clock>>
       /\ ThreadKeeps

\* the mutex a thread inside a call is about to acquire
Wants(t) ==
    IF fb_thread[t].pc \in {"push_drop_stats", "push_stats", "pop_repeat_stats", "pop_stats"}
    THEN "m_stats_mutex"
    ELSE IF fb_thread[t].pc \in {"pop_wait", "stats_queue"} THEN "m_mutex"
    ELSE "none"

\* thread t cannot go on before thread u lets go of a mutex
WaitsFor(t, u) ==
    \/ Wants(t) = "m_stats_mutex" /\ m_stats_mutex = u
    \/ Wants(t) = "m_mutex" /\ m_mutex = u

(***************************************************************************)
(* capture::DeckLinkCapture with the device callback on the producer's      *)
(* thread and getFrame, getStats and stop on the render thread              *)
(* (src/src/capture/decklink_capture.cpp).  A thread's step runs from one   *)
(* acquisition of a mutex, or one access to the atomic m_running, to the    *)
(* next.                                                                    *)
(***************************************************************************)
\* the thread of the DeckLink driver that delivers VideoInputFrameArrived
CallbackThread == "callback"
\* the thread of main's loop
RenderThread == "render"
CapThreads == {CallbackThread, RenderThread}

CapThreadInit ==
    /\ m_queue_mutex = Free
    /\ cap_stats_mutex = Free
    /\ cap_pc = [t \in CapThreads |-> "idle"]

\* the members no step of a thread assigns
CapThreadKeeps ==
    /\ DetectionKept
    /\ UNCHANGED <<cap_initialized, sourcePts, sourceIntervals>>

\* DeckLinkCapture::onFrameReceived on the callback's thread
threadOnFrameReceived ==
    \* if (!m_running) return; then the frame is copied
    \/ /\ cap_pc[CallbackThread] = "idle"
       /\ capStats.frames_captured < MaxCaptured
       /\ cap_pc' = [cap_pc EXCEPT ![CallbackThread] =
                        IF m_running THEN "cb_queue" ELSE "idle"]
       /\ UNCHANGED <<m_queue_mutex, cap_stats_mutex, m_running, m_frame_queue,
                      capStats, capOut>>
       /\ CapThreadKeeps
    \* lock_guard lock(m_queue_mutex), up to the nested stats_lock or the end
    \* of the block
    \/ /\ cap_pc[CallbackThread] = "cb_queue"
       /\ m_queue_mutex = Free
       /\ IF Len(m_frame_queue) >= MAX_QUEUE_SIZE
          THEN /\ m_frame_queue' = Tail(m_frame_queue)
               /\ m_queue_mutex' = CallbackThread
               /\ cap_pc' = [cap_pc EXCEPT ![CallbackThread] = "cb_drop_stats"]
          ELSE /\ m_frame_queue' = Append(m_frame_queue, capStats.frames_captured + 1)
               /\ cap_pc' = [cap_pc EXCEPT ![CallbackThread] = "cb_stats"]
               /\ UNCHANGED m_queue_mutex
       /\ UNCHANGED <<cap_stats_mutex, m_running, capStats, capOut>>
       /\ CapThreadKeeps
    \* lock_guard stats_lock(m_stats_mutex) of the drop, then the insertion
    \/ /\ cap_pc[CallbackThread] = "cb_drop_stats"
       /\ cap_stats_mutex = Free
       /\ capStats' = [capStats EXCEPT !.frames_dropped = @ + 1]
       /\ m_frame_queue' = Append(m_frame_queue, capStats.frames_captured + 1)
       /\ m_queue_mutex' = Free
       /\ cap_pc' = [cap_pc EXCEPT ![CallbackThread] = "cb_stats"]
       /\ UNCHANGED <<cap_stats_mutex, m_running, capOut>>
       /\ CapThreadKeeps
    \* lock_guard lock(m_stats_mutex) of the statistics, then the return
    \/ /\ cap_pc[CallbackThread] = "cb_stats"
       /\ cap_stats_mutex = Free
       /\ capStats' = [capStats EXCEPT !.frames_captured = @ + 1]
       /\ cap_pc' = [cap_pc EXCEPT ![CallbackThread] = "idle"]
       /\ UNCHANGED <<m_queue_mutex, cap_stats_mutex, m_running, m_frame_queue, capOut>>
       /\ CapThreadKeeps

\* DeckLinkCapture::getStats on the render thread
threadCapGetStats ==
    \* lock_guard lock(m_stats_mutex)
    \/ /\ cap_pc[RenderThread] = "idle"
       /\ cap_stats_mutex = Free
       /\ cap_stats_mutex' = RenderThread
       /\ cap_pc' = [cap_pc EXCEPT ![RenderThread] = "stats_queue"]
       /\ UNCHANGED <<m_queue_mutex, m_running, m_frame_queue, capStats, capOut>>
       /\ CapThreadKeeps
    \* lock_guard queue_lock(m_queue_mutex), then the return
    \/ /\ cap_pc[RenderThread] = "stats_queue"
       /\ m_queue_mutex = Free
       /\ cap_stats_mutex' = Free
       /\ cap_pc' = [cap_pc EXCEPT ![RenderThread] = "idle"]
       /\ capOut' = [op |-> "getStats", result |-> "SUCCESS"]
       /\ UNCHANGED <<m_queue_mutex, m_running, m_frame_queue, capStats>>
       /\ CapThreadKeeps

\* DeckLinkCapture::getFrame on the render thread
threadGetFrame ==
    \* unique_lock lock(m_queue_mutex); an empty queue: wait_for lets go of it
    \/ /\ cap_pc[RenderThread] = "idle"
       /\ m_queue_mutex = Free
       /\ IF m_frame_queue = <<>>
          THEN /\ cap_pc' = [cap_pc EXCEPT ![RenderThread] = "frame_wait"]
               /\ UNCHANGED <<m_frame_queue, capOut>>
          ELSE /\ m_frame_queue' = Tail(m_frame_queue)
               /\ capOut' = [op |-> "getFrame", result |-> "SUCCESS",
                             frame |-> Head(m_frame_queue)]
               /\ UNCHANGED cap_pc
       /\ UNCHANGED <<m_queue_mutex, cap_stats_mutex, m_running, capStats>>
       /\ CapThreadKeeps
    \* wait_for returns, on a notification or on the timeout, with the mutex
    \/ /\ cap_pc[RenderThread] = "frame_wait"
       /\ m_queue_mutex = Free
       /\ IF m_frame_queue = <<>>
          THEN /\ capOut' = [op |-> "getFrame", result |-> "ERROR_TIMEOUT"]
               /\ UNCHANGED m_frame_queue
          ELSE /\ m_frame_queue' = Tail(m_frame_queue)
               /\ capOut' = [op |-> "getFrame", result |-> "SUCCESS",
                             frame |-> Head(m_frame_queue)]
       /\ cap_pc' = [cap_pc EXCEPT ![RenderThread] = "idle"]
       /\ UNCHANGED <<m_queue_mutex, cap_stats_mutex, m_running, capStats>>
       /\ CapThreadKeeps

\* DeckLinkCapture::stop on the render thread
threadStop ==
    \* if (!m_running) return; StopStreams, DisableVideoInput; m_running = false
    \/ /\ cap_pc[RenderThread] = "idle"
       /\ IF ~m_running
          THEN /\ capOut' = [op |-> "stop", result |-> "SUCCESS"]
               /\ UNCHANGED <<m_running, cap_pc>>
          ELSE /\ m_running' = FALSE
               /\ cap_pc' = [cap_pc EXCEPT ![RenderThread] = "stop_queue"]
               /\ UNCHANGED capOut
       /\ UNCHANGED <<m_queue_mutex, cap_stats_mutex, m_frame_queue, capStats>>
       /\ CapThreadKeeps
    \* lock_guard lock(m_queue_mutex), the queue is emptied, then the return
    \/ /\ cap_pc[RenderThread] = "stop_queue"
       /\ m_queue_mutex = Free
       /\ m_frame_queue' = <<>>
       /\ cap_pc' = [cap_pc EXCEPT ![RenderThread] = "idle"]
       /\ capOut' = [op |-> "stop", result |-> "SUCCESS"]
       /\ UNCHANGED <<m_queue_mutex, cap_stats_mutex, m_running, capStats>>
       /\ CapThreadKeeps

\* the mutex a thread of the capture is about to acquire
CapWants(t) ==
    IF cap_pc[t] \in {"cb_drop_stats", "cb_stats"} THEN "m_stats_mutex"
    ELSE IF cap_pc[t] \in {"cb_queue", "stats_queue", "frame_wait", "stop_queue"}
    THEN "m_queue_mutex"
    ELSE "none"

\* thread t cannot go on before thread u lets go of a mutex
CapWaitsFor(t, u) ==
    \/ CapWants(t) = "m_stats_mutex" /\ cap_stats_mutex = u
    \/ CapWants(t) = "m_queue_mutex" /\ m_queue_mutex = u

(***************************************************************************)
(* input::ReceiverControl: the connection and the background monitor thread *)
(* (src/src/input/receiver_control.cpp).  The monitor thread runs its loop  *)
(* from the assignment m_monitor_running = true that precedes its creation  *)
(* to the join that follows m_monitor_running = false.                      *)
(***************************************************************************)
\* the addresses passed to initialize: three receivers and a string that is
\* not an IPv4 address
Addresses == {"192.168.1.100", "192.168.1.101", "10.0.0.2", "receiver"}

\* inet_pton(AF_INET, ip_address) > 0
ValidAddress(ip_address) == ip_address # "receiver"

\* the ports passed to initialize: the eISCP port and another one
Ports == {60128, 60129}

MonInit ==
    /\ rc_connected = FALSE
    /\ m_receiver_info = [ip_address |-> "", port |-> 0, connected |-> FALSE]
    /\ m_monitoring_enabled = FALSE
    /\ m_monitor_running = FALSE
    /\ monOut = [op |-> "none", arg |-> "", result |-> "SUCCESS"]

\* the members after ReceiverControl::shutdown
ShutDown(st) == [st EXCEPT !.running = FALSE, !.connected = FALSE,
                           !.info.connected = FALSE]

\* the members after ReceiverControl::setMonitoringEnabled(enabled)
SetMonitoring(st, enabled) ==
    IF enabled = st.enabled THEN st
    ELSE IF enabled /\ st.connected
    THEN [st EXCEPT !.enabled = enabled, !.running = TRUE]
    ELSE IF ~enabled /\ st.running
    THEN [st EXCEPT !.enabled = enabled, !.running = FALSE]
    ELSE [st EXCEPT !.enabled = enabled]

\* the members the three functions read and write
MonState == [connected |-> rc_connected, info |-> m_receiver_info,
             enabled |-> m_monitoring_enabled, running |-> m_monitor_running]

\* the members take the values of st
SetMon(st) ==
    /\ rc_connected' = st.connected
    /\ m_receiver_info' = st.info
    /\ m_monitoring_enabled' = st.enabled
    /\ m_monitor_running' = st.running

\* ReceiverControl::initialize; socket_ok, connect_ok: socket() and
\* connect() succeed
rcInitialize(ip_address, port, socket_ok, connect_ok) ==
    LET st == IF rc_connected THEN ShutDown(MonState) ELSE MonState
    IN  /\ IF ~socket_ok
           THEN /\ SetMon(st)
                /\ monOut' = [op |-> "initialize", arg |-> ip_address, result |-> "ERROR_INITIALIZATION_FAILED"]
           ELSE IF ~ValidAddress(ip_address)
           THEN /\ SetMon(st)
                /\ monOut' = [op |-> "initialize", arg |-> ip_address, result |-> "ERROR_INVALID_PARAMETER"]
           ELSE IF ~connect_ok
           THEN /\ SetMon(st)
                /\ monOut' = [op |-> "initialize", arg |-> ip_address, result |-> "ERROR_CONNECTION_FAILED"]
           ELSE LET connected == [st EXCEPT
                                    !.connected = TRUE,
                                    !.info = [ip_address |-> ip_address, port |-> port,
                                              connected |-> TRUE]]
                IN  /\ SetMon(IF connected.enabled
                              THEN SetMonitoring(connected, TRUE)
                              ELSE connected)
                    /\ monOut' = [op |-> "initialize", arg |-> ip_address, result |-> "SUCCESS"]
        /\ UNCHANGED notMon

\* ReceiverControl::shutdown
rcShutdown ==
    /\ SetMon(ShutDown(MonState))
    /\ monOut' = [op |-> "shutdown", arg |-> "", result |-> "SUCCESS"]
    /\ UNCHANGED notMon

\* ReceiverControl::setMonitoringEnabled
setMonitoringEnabled(enabled) ==
    /\ SetMon(SetMonitoring(MonState, enabled))
    /\ monOut' = [op |-> "setMonitoringEnabled",
                 arg |-> IF enabled THEN "true" ELSE "false", result |-> "SUCCESS"]
    /\ UNCHANGED notMon

Init == FBInit(0..MaxCapacity) /\ SchedInit /\ MenuInit /\ BBInit /\ FMInit({<<>>}) /\ CapInit /\ DRMInit /\ RCInit /\ EISCPInit({MVL}, {UP}) /\ EDIDInit /\ PPInit /\ MainInit({FALSE}) /\ DMInit({NoMode}) /\ ClockInit /\ FBThreadInit /\ CapThreadInit /\ MonInit

Next ==
    \/ push
    \/ pop
    \/ peek
    \/ \E target_pts \in 1..MaxPTS, tolerance \in 0..MaxTol :
          getFrameByPTS(target_pts, tolerance)
    \/ clear

Spec == Init /\ [][Next]_vars

\* capacity of a default-constructed FrameBuffer
DefaultCapacity == 3

InitSched == FBInit({DefaultCapacity}) /\ SchedInit /\ MenuInit /\ BBInit /\ FMInit({<<>>}) /\ CapInit /\ DRMInit /\ RCInit /\ EISCPInit({MVL}, {UP}) /\ EDIDInit /\ PPInit /\ MainInit({FALSE}) /\ DMInit({NoMode}) /\ ClockInit /\ FBThreadInit /\ CapThreadInit /\ MonInit

NextSched ==
    \/ \E hz \in Rates, algorithm \in Algorithms : initialize(hz, algorithm)
    \/ \E fps \in Rates : setSourceFrameRate(fps)
    \/ \E hz \in Rates : setDisplayRefreshRate(hz)
    \/ \E algorithm \in Algorithms : setAlgorithm(algorithm)
    \/ \E enabled \in BOOLEAN : setVRREnabled(enabled)
    \/ scheduleFrame

SpecSched == InitSched /\ [][NextSched]_vars

InitMenu == FBInit({DefaultCapacity}) /\ SchedInit /\ MenuInit /\ BBInit /\ FMInit({<<>>}) /\ CapInit /\ DRMInit /\ RCInit /\ EISCPInit({MVL}, {UP}) /\ EDIDInit /\ PPInit /\ MainInit({FALSE}) /\ DMInit({NoMode}) /\ ClockInit /\ FBThreadInit /\ CapThreadInit /\ MonInit

NextMenu ==
    \/ \E timeout_ms \in {0} : menuInitialize(timeout_ms)
    \/ menuShutdown
    \/ \E menu \in Menus : loadMenu(menu)
    \/ \E ev \in (Buttons \X {TRUE}) \cup ({"OK"} \X {FALSE}) : handleButton(ev[1], ev[2])
    \/ menuShow
    \/ \E delta_time_ms \in {1} : update(delta_time_ms)

SpecMenu == InitMenu /\ [][NextMenu]_vars

\* the menu with its sliders ranging over 0..MaxSlider steps
Widen(menu) ==
    [t \in DOMAIN menu |->
        [i \in DOMAIN menu[t] |->
            IF menu[t][i].type = "SLIDER"
            THEN [menu[t][i] EXCEPT !.max_value = MaxSlider]
            ELSE menu[t][i]]]

\* the menus whose items are all visible and enabled
PlainMenus == { Widen(BuildMenu(shape, <<>>)) : shape \in Shapes }

InitMenuInput == FBInit({DefaultCapacity}) /\ SchedInit /\ MenuInit /\ BBInit /\ FMInit({<<>>}) /\ CapInit /\ DRMInit /\ RCInit /\ EISCPInit({MVL}, {UP}) /\ EDIDInit /\ PPInit /\ MainInit({FALSE}) /\ DMInit({NoMode}) /\ ClockInit /\ FBThreadInit /\ CapThreadInit /\ MonInit

\* the menu system driven with menus whose items are all selectable
NextMenuInput ==
    \/ \E timeout_ms \in {0, MaxTimeout} : menuInitialize(timeout_ms)
    \/ menuShutdown
    \/ \E menu \in PlainMenus : loadMenu(menu)
    \/ \E ev \in (Buttons \X {TRUE}) \cup ({"OK"} \X {FALSE}) : handleButton(ev[1], ev[2])
    \/ menuShow
    \/ \E delta_time_ms \in {1} : update(delta_time_ms)

SpecMenuInput == InitMenuInput /\ [][NextMenuInput]_vars

InitCrop == FBInit({DefaultCapacity}) /\ SchedInit /\ MenuInit /\ BBInit /\ FMInit({<<>>}) /\ CapInit /\ DRMInit /\ RCInit /\ EISCPInit({MVL}, {UP}) /\ EDIDInit /\ PPInit /\ MainInit({FALSE}) /\ DMInit({NoMode}) /\ ClockInit /\ FBThreadInit /\ CapThreadInit /\ MonInit

NextCrop ==
    \/ \E frame \in LumaFrames, config \in BBConfigs : analyzeFrame(frame, config)
    \/ \E output \in FFmpegOutputs,
          config \in {DefaultBBConfig, [DefaultBBConfig EXCEPT !.symmetric_only = FALSE]} :
          bootstrapWithFFmpeg(output, FrameWidth, FrameHeight, config)
    \/ bbReset

SpecCrop == InitCrop /\ [][NextCrop]_vars

InitMatch == FBInit({DefaultCapacity}) /\ SchedInit /\ MenuInit /\ BBInit /\ FMInit(ModeLists) /\ CapInit /\ DRMInit /\ RCInit /\ EISCPInit({MVL}, {UP}) /\ EDIDInit /\ PPInit /\ MainInit({FALSE}) /\ DMInit({NoMode}) /\ ClockInit /\ FBThreadInit /\ CapThreadInit /\ MonInit

NextMatch ==
    \/ matcherInitialize
    \/ \E enabled \in BOOLEAN : setEnabled(enabled)
    \/ \E source_fps \in SourceRates : findBestMatch(source_fps)
    \/ \E detected_fps \in SourceRates, is_stable \in BOOLEAN :
          matcherUpdate(detected_fps, is_stable)

SpecMatch == InitMatch /\ [][NextMatch]_vars

InitCapture == FBInit({DefaultCapacity}) /\ SchedInit /\ MenuInit /\ BBInit /\ FMInit({<<>>}) /\ CapInit /\ DRMInit /\ RCInit /\ EISCPInit({MVL}, {UP}) /\ EDIDInit /\ PPInit /\ MainInit({FALSE}) /\ DMInit({NoMode}) /\ ClockInit /\ FBThreadInit /\ CapThreadInit /\ MonInit

NextCapture ==
    \/ \E device_found \in BOOLEAN : capInitialize(device_found)
    \/ \E streams_ok \in BOOLEAN : capStart(streams_ok)
    \/ capStop
    \/ \E interval \in Intervals : onFrameReceived(sourcePts + interval)
    \/ getFrame

SpecCapture == InitCapture /\ [][NextCapture]_vars

InitFlip == FBInit({DefaultCapacity}) /\ SchedInit /\ MenuInit /\ BBInit /\ FMInit({<<>>}) /\ CapInit /\ DRMInit /\ RCInit /\ EISCPInit({MVL}, {UP}) /\ EDIDInit /\ PPInit /\ MainInit({FALSE}) /\ DMInit({NoMode}) /\ ClockInit /\ FBThreadInit /\ CapThreadInit /\ MonInit

NextFlip ==
    \/ \E device_ok \in BOOLEAN : drmInitialize(device_ok)
    \/ drmShutdown
    \/ \E t \in Threads : pageFlipEnter(t)
    \/ \E t \in Threads, accepted \in BOOLEAN : pageFlipSubmit(t, accepted)
    \/ \E t \in Threads : pageFlipMark(t)
    \/ \E t \in Threads, poll_ret \in {-1, 0, 1} : pageFlipWait(t, poll_ret)
    \/ vblank

SpecFlip == InitFlip /\ [][NextFlip]_vars

InitReceiver == FBInit({DefaultCapacity}) /\ SchedInit /\ MenuInit /\ BBInit /\ FMInit({<<>>}) /\ CapInit /\ DRMInit /\ RCInit /\ EISCPInit({MVL}, {UP}) /\ EDIDInit /\ PPInit /\ MainInit({FALSE}) /\ DMInit({NoMode}) /\ ClockInit /\ FBThreadInit /\ CapThreadInit /\ MonInit

NextReceiver ==
    \/ advanceClock
    \/ \E parameter \in VolumeParameters : parseVolumeResponse(parameter)
    \/ \E parameter \in MuteParameters : muteStatus(parameter)
    \/ renderVolumeOverlay
    \/ overlayUpdate

SpecReceiver == InitReceiver /\ [][NextReceiver]_vars

InitVolume == FBInit({DefaultCapacity}) /\ SchedInit /\ MenuInit /\ BBInit /\ FMInit({<<>>}) /\ CapInit /\ DRMInit /\ RCInit /\ EISCPInit({MVL}, {UP}) /\ EDIDInit /\ PPInit /\ MainInit({FALSE}) /\ DMInit({NoMode}) /\ ClockInit /\ FBThreadInit /\ CapThreadInit /\ MonInit

\* the maximum volumes configured: the default 80, and 50 and 100
MaxVolumes == {50, 80, 100}

\* the MVL parameters of a receiver whose volume goes up to 0x64
RawVolumes == VolumeParameters \cup { <<"6", "4">> }

NextVolume ==
    \/ advanceClock
    \/ \E parameter \in RawVolumes : parseVolumeResponse(parameter)
    \/ \E max_volume \in MaxVolumes : setMaxVolume(max_volume)

SpecVolume == InitVolume /\ [][NextVolume]_vars

InitEISCP == FBInit({DefaultCapacity}) /\ SchedInit /\ MenuInit /\ BBInit /\ FMInit({<<>>}) /\ CapInit /\ DRMInit /\ RCInit /\ EISCPInit(Commands, Parameters) /\ EDIDInit /\ PPInit /\ MainInit({FALSE}) /\ DMInit({NoMode}) /\ ClockInit /\ FBThreadInit /\ CapThreadInit /\ MonInit

NextEISCP ==
    \/ eiscpBuild
    \/ eiscpParse

SpecEISCP == InitEISCP /\ [][NextEISCP]_vars

InitEDID == FBInit({DefaultCapacity}) /\ SchedInit /\ MenuInit /\ BBInit /\ FMInit({<<>>}) /\ CapInit /\ DRMInit /\ RCInit /\ EISCPInit({MVL}, {UP}) /\ EDIDInit /\ PPInit /\ MainInit({FALSE}) /\ DMInit({NoMode}) /\ ClockInit /\ FBThreadInit /\ CapThreadInit /\ MonInit

NextEDID ==
    \/ \E data \in EDIDImages, beyond \in {0, 255} : parseEDIDData(data, beyond)

SpecEDID == InitEDID /\ [][NextEDID]_vars

InitPipeline == FBInit({DefaultCapacity}) /\ SchedInit /\ MenuInit /\ BBInit /\ FMInit({<<>>}) /\ CapInit /\ DRMInit /\ RCInit /\ EISCPInit({MVL}, {UP}) /\ EDIDInit /\ PPInit /\ MainInit({FALSE}) /\ DMInit({NoMode}) /\ ClockInit /\ FBThreadInit /\ CapThreadInit /\ MonInit

NextPipeline ==
    \/ \E config \in PipelineConfigs, osd \in BOOLEAN : pipelineInitialize(config, osd)
    \/ pipelineShutdown
    \/ \E config \in PipelineConfigs : updateConfig(config)
    \/ \E input \in PipelineFrames, is_hdr \in BOOLEAN, elapsed \in {1} :
          processFrame(input, is_hdr, elapsed)
    \/ handleButton("MENU", TRUE)

SpecPipeline == InitPipeline /\ [][NextPipeline]_vars

InitMain == FBInit({DefaultCapacity}) /\ SchedInit /\ MenuInit /\ BBInit /\ FMInit({<<>>}) /\ CapInit /\ DRMInit /\ RCInit /\ EISCPInit({MVL}, {UP}) /\ EDIDInit /\ PPInit /\ MainInit(BOOLEAN) /\ DMInit({NoMode}) /\ ClockInit /\ FBThreadInit /\ CapThreadInit /\ MonInit

NextMain ==
    \/ signal_handler
    \/ frameArrives
    \/ \E process_result, present_result \in {"SUCCESS"} \cup Failures :
          iteration(process_result, present_result)
    \/ loopExit
    \/ shutdownStep

SpecMain == InitMain /\ [][NextMain]_vars

InitMode == FBInit({DefaultCapacity}) /\ SchedInit /\ MenuInit /\ BBInit /\ FMInit({<<>>}) /\ CapInit /\ DRMInit /\ RCInit /\ EISCPInit({MVL}, {UP}) /\ EDIDInit /\ PPInit /\ MainInit({FALSE}) /\ DMInit(CrtcStates) /\ ClockInit /\ FBThreadInit /\ CapThreadInit /\ MonInit

NextMode ==
    \/ \E auto_mode \in BOOLEAN, requested_mode \in RequestedModes,
          failed_step \in InitSteps \cup {"none"},
          crtc_read \in BOOLEAN, saved_read \in BOOLEAN :
          displayInitialize(auto_mode, requested_mode, failed_step, crtc_read, saved_read)
    \/ \E mode \in RequestedModes : setMode(mode)
    \/ \E set_ok \in BOOLEAN : displayShutdown(set_ok)

SpecMode == InitMode /\ [][NextMode]_vars

InitClock == FBInit({DefaultCapacity}) /\ SchedInit /\ MenuInit /\ BBInit /\ FMInit({<<>>}) /\ CapInit /\ DRMInit /\ RCInit /\ EISCPInit({MVL}, {UP}) /\ EDIDInit /\ PPInit /\ MainInit({FALSE}) /\ DMInit({NoMode}) /\ ClockInit /\ FBThreadInit /\ CapThreadInit /\ MonInit

NextClock ==
    \/ \E raw_step, steady_step \in 0..1 : clockAdvance(raw_step, steady_step)
    \/ \E read_ok \in BOOLEAN : clockNow(read_ok)

SpecClock == InitClock /\ [][NextClock]_vars

InitThreads == FBInit(0..MaxCapacity) /\ SchedInit /\ MenuInit /\ BBInit /\ FMInit({<<>>}) /\ CapInit /\ DRMInit /\ RCInit /\ EISCPInit({MVL}, {UP}) /\ EDIDInit /\ PPInit /\ MainInit({FALSE}) /\ DMInit({NoMode}) /\ ClockInit /\ FBThreadInit /\ CapThreadInit /\ MonInit

NextThreads ==
    \/ \E frame \in InputFrames, drop \in BOOLEAN, now \in {clock + 1} :
          /\ threadPush(frame, drop, now)
          /\ UNCHANGED notFT
    \/ threadPop /\ UNCHANGED notFT
    \/ threadGetStats /\ UNCHANGED notFT

SpecThreads == InitThreads /\ [][NextThreads]_vars

InitCapThreads == FBInit({DefaultCapacity}) /\ SchedInit /\ MenuInit /\ BBInit /\ FMInit({<<>>}) /\ CapInit /\ DRMInit /\ RCInit /\ EISCPInit({MVL}, {UP}) /\ EDIDInit /\ PPInit /\ MainInit({FALSE}) /\ DMInit({NoMode}) /\ ClockInit /\ FBThreadInit /\ CapThreadInit /\ MonInit

\* initialize and start are called by main before its loop, between two calls
\* of the render thread
NextCapThreads ==
    \/ cap_pc[RenderThread] = "idle" /\ ~cap_initialized /\ capInitialize(TRUE)
    \/ cap_pc[RenderThread] = "idle" /\ cap_initialized /\ ~m_running /\ capStart(TRUE)
    \/ threadOnFrameReceived /\ UNCHANGED notCT
    \/ threadCapGetStats /\ UNCHANGED notCT
    \/ threadGetFrame /\ UNCHANGED notCT
    \/ threadStop /\ UNCHANGED notCT

SpecCapThreads == InitCapThreads /\ [][NextCapThreads]_vars

InitMonitor == FBInit({DefaultCapacity}) /\ SchedInit /\ MenuInit /\ BBInit /\ FMInit({<<>>}) /\ CapInit /\ DRMInit /\ RCInit /\ EISCPInit({MVL}, {UP}) /\ EDIDInit /\ PPInit /\ MainInit({FALSE}) /\ DMInit({NoMode}) /\ ClockInit /\ FBThreadInit /\ CapThreadInit /\ MonInit

NextMonitor ==
    \/ \E ip_address \in Addresses, port \in Ports, socket_ok \in BOOLEAN, connect_ok \in BOOLEAN :
          rcInitialize(ip_address, port, socket_ok, connect_ok)
    \/ rcShutdown
    \/ \E enabled \in BOOLEAN : setMonitoringEnabled(enabled)

SpecMonitor == InitMonitor /\ [][NextMonitor]_vars

(***************************************************************************)
(* Properties of capture::FrameBuffer                                      *)
(***************************************************************************)
RECURSIVE IsSubseq(_, _)
\* s can be obtained from t by deleting elements
IsSubseq(s, t) ==
    IF s = <<>> THEN TRUE
    ELSE IF t = <<>> THEN FALSE
    ELSE IF Head(s) = Head(t) THEN IsSubseq(Tail(s), Tail(t))
    ELSE IsSubseq(s, Tail(t))

\* q without its i-th element
RemoveAt(q, i) == SubSeq(q, 1, i - 1) \o SubSeq(q, i + 1, Len(q))

\* pts, size and bytes agree (the frames are deep-equal)
DeepEqual(f, g) == f.pts = g.pts /\ f.size = g.size /\ f.bytes = g.bytes

\* C1: after every operation size() <= capacity, for any capacity and either
\* value of drop_oldest_on_full.
C1_SizeWithinCapacity == Len(m_queue) <= m_capacity

\* C2: after every operation frames_pushed - frames_popped - frames_dropped
\* equals the current size of the buffer.
C2_CountersMatchSize ==
    m_stats.frames_pushed - m_stats.frames_popped - m_stats.frames_dropped
        = Len(m_queue)

C4_RepeatIsDeepCopy ==
    [][ (fbOut'.op = "pop" /\ m_queue = <<>> /\ m_has_last_frame) =>
          /\ fbOut'.result = "SUCCESS"
          /\ fbOut'.repeated
          /\ DeepEqual(fbOut'.frame, lastPopped)
          /\ (lastPopped.data # NULL) = (fbOut'.frame.data # NULL)
          /\ fbOut'.frame.data # NULL =>
                /\ fbOut'.frame.data # m_last_frame.frame.data
                /\ fbOut'.frame.data # m_last_frame'.frame.data
                /\ fbOut'.frame.data # lastPopped.data
                /\ fbOut'.frame.data # CallerBuf
          /\ m_stats'.frames_repeated = m_stats.frames_repeated + 1
          /\ m_last_frame' = m_last_frame ]_vars

\* a frame with bytes has been repeated
C4_Witness ==
    /\ fbOut.op = "pop" /\ fbOut.repeated
    /\ fbOut.frame.data # NULL
    /\ m_stats.frames_repeated = 1

\* C5: a push with drop_oldest_on_full on a full buffer discards exactly one
\* element, the one with the minimum arrival time, counts it in
\* frames_dropped and then inserts the new frame.
C5_DropOldestOnFull ==
    [][ (fbOut'.op = "push" /\ fbOut'.result = "SUCCESS"
            /\ Len(m_queue) >= m_capacity) =>
          /\ m_stats'.frames_dropped = m_stats.frames_dropped + 1
          /\ m_queue' # <<>>
          /\ \E i \in 1..Len(m_queue) :
                /\ \A j \in 1..Len(m_queue) :
                      m_queue[i].arrival_time <= m_queue[j].arrival_time
                /\ m_queue' = Append(RemoveAt(m_queue, i),
                                     m_queue'[Len(m_queue')]) ]_vars

\* C6: getFrameByPTS returns, among the buffered frames within the
\* tolerance, the one whose PTS is nearest to the target, and NotFound
\* exactly when no buffered frame lies within the tolerance.
C6_NearestWithinTolerance ==
    [][ fbOut'.op = "getFrameByPTS" =>
          LET within == Matching(m_queue, fbOut'.target, fbOut'.tolerance)
          IN /\ (fbOut'.result = "ERROR_NOT_FOUND") = (within = {})
             /\ within # {} =>
                   /\ fbOut'.result = "SUCCESS"
                   /\ \E i \in within : m_queue[i].id = fbOut'.id
                   /\ \A i \in within :
                         Diff(fbOut'.frame.pts, fbOut'.target)
                            <= Diff(m_queue[i].frame.pts, fbOut'.target) ]_vars

\* C7: a successful getFrameByPTS removes the returned frame: size() drops
\* by one, the remaining frames keep their order, and the frame is no longer
\* in the queue for a later pop or getFrameByPTS.
C7_GetByPTSRemoves ==
    [][ (fbOut'.op = "getFrameByPTS" /\ fbOut'.result = "SUCCESS") =>
          /\ Len(m_queue') = Len(m_queue) - 1
          /\ \E i \in 1..Len(m_queue) :
                /\ m_queue[i].id = fbOut'.id
                /\ m_queue' = RemoveAt(m_queue, i)
          /\ \A i \in 1..Len(m_queue') : m_queue'[i].id # fbOut'.id ]_vars

\* C8: after clear() the buffer is empty and no last frame is retained, so
\* a pop that then times out returns Timeout, not a repeated frame.
C8_ClearDropsLastFrame ==
    [][ /\ fbOut'.op = "clear" => (m_queue' = <<>> /\ ~m_has_last_frame')
        /\ (fbOut.op = "clear" /\ fbOut'.op = "pop") =>
              (fbOut'.result = "ERROR_TIMEOUT" /\ ~fbOut'.repeated) ]_vars

(***************************************************************************)
(* Properties of sync::FrameScheduler                                      *)
(***************************************************************************)
\* round(n / d) for n >= 0, d > 0
Round(n, d) == (2 * n + d) \div (2 * d)

\* the number of presented frames among decisions[i..j]
Presented(i, j) == Cardinality({ k \in i..j : decisions[k] })

\* C9: with source_fps and display_hz fixed, over any window of N consecutive
\* source frames the number of frames presented is
\* round(N * display_hz / source_fps) plus or minus 1.
C9_PresentedPerWindow ==
    \A i \in 1..Len(decisions) : \A j \in i..Len(decisions) :
        LET N == j - i + 1
            expected == Round(N * m_display_refresh_rate, m_source_frame_rate)
        IN Presented(i, j) \in (expected - 1)..(expected + 1)

(***************************************************************************)
(* Properties of osd::MenuSystem                                           *)
(***************************************************************************)
\* the last call was a navigation action that returned
AfterNavigation ==
    /\ ~hung
    /\ \/ menuOut.op = "loadMenu"
       \/ /\ menuOut.op = "handleButton"
          /\ menuOut.pressed
          /\ menuOut.button \in {"UP", "DOWN", "LEFT", "RIGHT"}
                                  \cup { NumButtons[n] : n \in 1..Len(NumButtons) }

\* m_current_tab / m_current_item reference an existing, visible, enabled item
CurrentSelectable ==
    /\ HasCurrentItem(m_menu, m_current_tab, m_current_item)
    /\ Selectable(m_menu[m_current_tab + 1][m_current_item + 1])

\* C10: after any navigation action (UP, DOWN, LEFT, RIGHT, NUM_1..NUM_8,
\* loading a menu) the menu is hidden or the current tab and item reference
\* an existing item that is visible and enabled.
C10_NavigationSelectsSelectable ==
    AfterNavigation => (~m_visible \/ CurrentSelectable)

(***************************************************************************)
(* Properties of processing::BlackBarDetector                              *)
(***************************************************************************)
RECURSIVE TailRun(_)
\* the number of entries at the end of the history with the insets of the
\* last one
TailRun(h) ==
    IF h = <<>> THEN 0
    ELSE IF Len(h) = 1 THEN 1
    ELSE IF Insets(h[Len(h) - 1]) = Insets(h[Len(h)])
         THEN 1 + TailRun(SubSeq(h, 1, Len(h) - 1))
         ELSE 1

\* the least number of frames that is at least
\* confidence_threshold * history capacity
FramesNeeded ==
    CHOOSE k \in 0..MaxHistory :
        /\ k * ConfidenceThreshold[2] >= ConfidenceThreshold[1] * MaxHistory
        /\ \A j \in 0..(k - 1) :
              j * ConfidenceThreshold[2] < ConfidenceThreshold[1] * MaxHistory

\* C11: once the crop detected from the frames (after the content-size and
\* symmetry filters) has been the same C for at least
\* confidence_threshold * history capacity consecutive analysed frames,
\* whatever the history before, getCropRegion() has the insets of C, and it
\* keeps them for as long as further frames yield C.
C11_StableAfterConstantRun ==
    (bbOut.path = "detect" /\ TailRun(m_history) >= FramesNeeded)
        => Insets(m_stable_crop) = Insets(m_history[Len(m_history)])

\* a full history whose oldest entry differs, followed by just enough frames
\* with the same letterbox
C11_Witness ==
    /\ bbOut.path = "detect"
    /\ Len(m_history) = MaxHistory
    /\ TailRun(m_history) = FramesNeeded
    /\ FramesNeeded < MaxHistory
    /\ Insets(m_history[Len(m_history)]) # <<0, 0, 0, 0>>
    /\ Insets(m_stable_crop) = Insets(m_history[Len(m_history)])

\* C12: as long as every call was made with symmetric_only = true, the crop
\* returned by getCropRegion() has |top - bottom| <= 0.05 * height and
\* |left - right| <= 0.05 * width.
C12_StableCropSymmetric ==
    symmetricOnly =>
        /\ 20 * Abs(m_stable_crop.top - m_stable_crop.bottom) <= FrameHeight
        /\ 20 * Abs(m_stable_crop.left - m_stable_crop.right) <= FrameWidth

\* C13: after analyzeFrame with the manual override active, getCropRegion()
\* returns the override insets with confidence 1.
C13_ManualOverrideIsStable ==
    bbOut.path = "manual" =>
        /\ Insets(m_stable_crop) = ManualInsets
        /\ m_stable_crop.confidence = Frac(1, 1)

(***************************************************************************)
(* Properties of display::FrameRateMatcher                                 *)
(***************************************************************************)
\* the refresh rates of a mode list
RatesOf(modes) == { modes[i].refresh_rate : i \in 1..Len(modes) }

\* the rates within 0.5 Hz of k times the source rate
MultiplesOf(source_fps, k, rates) == { r \in rates : Abs(r - k * source_fps) < 500 }

\* the rates within 0.5 Hz of the source rate divided by d
DivisorsOf(source_fps, d, rates) == { r \in rates : Abs(r * d - source_fps) < 500 * d }

\* factors beyond which no rate explored is a multiple or divisor
MaxFactor == 12

\* the rates the preference exact, lowest multiple, lowest divisor, closest
\* allows for a source rate
Preferred(source_fps, rates) ==
    LET mults == { k \in 2..MaxFactor : MultiplesOf(source_fps, k, rates) # {} }
        divs  == { d \in 2..MaxFactor : DivisorsOf(source_fps, d, rates) # {} }
    IN IF MultiplesOf(source_fps, 1, rates) # {} THEN MultiplesOf(source_fps, 1, rates)
       ELSE IF mults # {} THEN MultiplesOf(source_fps, SetMin(mults), rates)
       ELSE IF divs # {} THEN DivisorsOf(source_fps, SetMin(divs), rates)
       ELSE { r \in rates : \A q \in rates : Abs(r - source_fps) <= Abs(q - source_fps) }

\* C14: the refresh rate of the mode findBestMatch selects is an exact match
\* (within 0.5 Hz) if the display has one, else its lowest integer multiple of
\* the source rate, else its lowest integer divisor, else its rate closest to
\* the source rate.
C14_PreferredRefreshSelected ==
    (fmOut.op = "findBestMatch" /\ matcher_initialized /\ available_modes # <<>>)
        => fmOut.mode.refresh_rate \in Preferred(fmOut.source_fps, RatesOf(available_modes))

\* the display offers 24, 50 and 60 Hz and every update so far got a stable
\* 23.976 fps from the capture
FilmScenario ==
    /\ RatesOf(available_modes) = {24000, 50000, 60000}
    /\ reports.updates >= 1
    /\ reports.film

\* C15 (as stated): in that scenario exactly one set_mode call was issued, it
\* selected 24 Hz, and mode_switches is 1.
C15_OneSwitchTo24 ==
    FilmScenario => (setModeCalls = <<24000>> /\ matcherStats.mode_switches = 1)

\* C15 (amended): in that scenario, if the display was not showing 24 Hz
\* before the first update, exactly one set_mode call was issued, it selected
\* 24 Hz and mode_switches is 1; if it was showing 24 Hz, none was issued and
\* mode_switches is 0.
C15_OneSwitchUnlessAt24 ==
    FilmScenario =>
        IF initialMode.refresh_rate = 24000
        THEN setModeCalls = <<>> /\ matcherStats.mode_switches = 0
        ELSE setModeCalls = <<24000>> /\ matcherStats.mode_switches = 1
                /\ m_current_mode.refresh_rate = 24000

\* two updates in the scenario, starting from 60 Hz
C15_Witness ==
    /\ FilmScenario
    /\ reports.updates >= 2
    /\ initialMode.refresh_rate = 60000
    /\ setModeCalls = <<24000>>
    /\ fmOut.op = "update"

(***************************************************************************)
(* Properties of capture::DeckLinkCapture                                  *)
(***************************************************************************)
RECURSIVE SeqSum(_)
SeqSum(s) == IF s = <<>> THEN 0 ELSE Head(s) + SeqSum(Tail(s))

\* the squares of the entries
Squares(s) == [i \in 1..Len(s) |-> s[i] * s[i]]

\* the standard deviation of the intervals is below 2% of their mean:
\* var < (mean / 50)^2, with n^2 * var = n * sum(x^2) - sum(x)^2
LowDeviation(s) ==
    2500 * (Len(s) * SeqSum(Squares(s)) - SeqSum(s) * SeqSum(s)) < SeqSum(s) * SeqSum(s)

\* 1e9 / mean_interval in Hz: 10000 / mean with intervals of 100 microseconds
MeanRate(s) == Frac(10000 * Len(s), SeqSum(s))

\* the window of delivered intervals is full and steady
SteadyWindow ==
    /\ m_running
    /\ Len(sourceIntervals) = FrameRateSamples
    /\ LowDeviation(sourceIntervals)

\* C16: once the source has delivered frames whose last FrameRateSamples PTS
\* intervals deviate by less than 2% of their mean, isFrameRateStable() is
\* true and getDetectedFrameRate() is 1e9 / mean_interval
C16_StableRateReported ==
    SteadyWindow =>
        /\ isFrameRateStable
        /\ FracGE(getDetectedFrameRate, MeanRate(sourceIntervals))
        /\ FracGE(MeanRate(sourceIntervals), getDetectedFrameRate)

(***************************************************************************)
(* Properties of display::DRMDisplay                                       *)
(***************************************************************************)
\* the threads whose page flip was submitted and whose call has not returned
Awaiting == { t \in Threads : pc[t] \in {"mark", "poll"} }

\* C17: at most one page flip is pending at any time: no present request
\* submits a page flip while another present awaits its completion event
C17_OnePendingFlip == Cardinality(Awaiting) <= 1

(***************************************************************************)
(* Properties of the volume overlay                                        *)
(***************************************************************************)
\* a == b
FracEQ(a, b) == a[1] * b[2] = b[1] * a[2]

\* what the claim has an overlay draw `elapsed` ms after the last change
OverlayAsClaimed(out, elapsed) ==
    /\ elapsed <= 2500 => out.drawn /\ FracEQ(out.opacity, Frac(1, 1))
    /\ (elapsed > 2500 /\ elapsed < 3000) =>
           out.drawn /\ FracEQ(out.opacity, Frac(3000 - elapsed, 500))
    /\ elapsed > 3000 => ~out.drawn

\* C18: after a volume change at t0 with no later change, whatever the
\* receiver sends afterwards, every frame of the main loop draws the volume
\* overlay with opacity 1.0 up to t0 + 2.5 s, with an opacity falling
\* linearly to 0.0 at t0 + 3.0 s, and does not draw it after that
C18_OverlayFollowsLastChange ==
    (overlayOut.op = "frame" /\ overlayOut.since >= 0) =>
        OverlayAsClaimed(overlayOut, overlayOut.at - overlayOut.since)

(***************************************************************************)
(* Properties of the eISCP packets                                         *)
(***************************************************************************)
\* C19: for every 3-character command and every parameter, parsing the
\* packet built from them succeeds and yields exactly the command and the
\* parameter
C19_ParseOfBuild ==
    (eiscp_packet # <<>> /\ Len(eiscp_command) = 3) =>
        LET message == parseEISCPPacket(eiscp_packet)
        IN  /\ message.ok
            /\ message.command = eiscp_command
            /\ message.parameter = eiscp_parameter

\* a packet of a 3-character command whose parameter ends in "\r\n" has
\* been built and parsed back
C19_Witness ==
    /\ eiscp_message.ok
    /\ Len(eiscp_command) = 3
    /\ eiscp_parameter = <<13, 10>>
    /\ eiscp_message.parameter = <<13, 10>>

(***************************************************************************)
(* Properties of display::EDIDParser                                       *)
(***************************************************************************)
\* block number b of the image (0: the base block), when it is all there
BlockOf(data, b) == SubSeq(data, b * 128 + 1, (b + 1) * 128)

\* the base block, or an extension block the base block announces, is all
\* there and its bytes do not sum to zero mod 256
FailsChecksum(data) ==
    /\ Len(data) >= 128
    /\ \E b \in 0..data[127] :
          /\ (b + 1) * 128 <= Len(data)
          /\ ByteSum(BlockOf(data, b)) # 0

\* C20: the parser returns InvalidData for every input whose base block or
\* one of whose extension blocks fails the zero-sum-mod-256 checksum
C20_BadChecksumRejected ==
    (edidOut.op = "parseEDIDData" /\ FailsChecksum(edid_data)) =>
        edidOut.result = "ERROR_INVALID_DATA"

(***************************************************************************)
(* Properties of the menu's inactivity timeout and value adjustment        *)
(***************************************************************************)
\* C21: with timeout_ms = T > 0 a visible menu is hidden no later than the
\* update() call at which the time accumulated since the last input reaches
\* T, and with T = 0 no update() call hides the menu
C21_HiddenOnTimeout ==
    [][/\ (m_visible' /\ menu_initialized' /\ m_config'.timeout_ms > 0) =>
              idleTime' < m_config'.timeout_ms
       /\ (menuOut'.op = "update" /\ m_config.timeout_ms = 0) => m_visible' = m_visible]_vars

\* an update() call has hidden a menu that was idle for the whole timeout
C21_Witness ==
    /\ menuOut.op = "update"
    /\ menu_initialized
    /\ m_config.timeout_ms = MaxTimeout
    /\ idleTime = MaxTimeout
    /\ ~m_visible
    /\ m_menu # <<>>

\* a pressed button is delivered to the visible menu in this step
PressWhileVisible ==
    /\ menuOut'.op = "handleButton"
    /\ menuOut'.pressed
    /\ m_visible

\* C22: every button press delivered to the menu while it is visible,
\* whatever the button, the tab and the item, resets the inactivity
\* accumulator to 0
C22_PressResetsTimeout ==
    [][PressWhileVisible => m_timeout_accumulator' = 0]_vars

\* C23: in AdjustingValue on a slider each LEFT / RIGHT press sets the value
\* to clamp(old + step * 10 * direction, min, max), direction -1 for LEFT
\* and +1 for RIGHT, so that the value stays within [min, max]
C23_SliderAdjustsByTenSteps ==
    [][(/\ PressWhileVisible
        /\ menuOut'.button \in {"LEFT", "RIGHT"}
        /\ m_adjusting_value
        /\ HasCurrentItem(m_menu, m_current_tab, m_current_item)
        /\ m_menu[m_current_tab + 1][m_current_item + 1].type = "SLIDER")
       => LET it == m_menu[m_current_tab + 1][m_current_item + 1]
              after == m_menu'[m_current_tab + 1][m_current_item + 1]
              direction == IF menuOut'.button = "LEFT" THEN -1 ELSE 1
          IN  /\ after.value = Clamp(it.value + it.step * 10 * direction,
                                     it.min_value, it.max_value)
              /\ after.value >= it.min_value
              /\ after.value <= it.max_value]_vars

(***************************************************************************)
(* Properties of processing::ProcessingPipeline                             *)
(***************************************************************************)
\* C24: every crop applyCrop applies to a frame leaves rows and columns of it:
\* top + bottom < height and left + right < width of that frame, whatever
\* frames, resolutions and manual override values came before
C24_AppliedCropFitsFrame ==
    (ppOut.op = "processFrame" /\ ppOut.cropped) =>
        /\ ppOut.crop[1] + ppOut.crop[2] < ppOut.height
        /\ ppOut.crop[3] + ppOut.crop[4] < ppOut.width

\* C26: a processFrame in which a substage (crop, NLS, tone mapping, OSD
\* composite) fails returns an error, assigns no output frame and leaves
\* frames_processed as it was
C26_FailedStageDiscardsFrame ==
    [][(ppOut'.op = "processFrame" /\ ppOut'.failed # "none") =>
          /\ ppOut'.result # "SUCCESS"
          /\ ~ppOut'.delivered
          /\ frames_processed' = frames_processed]_vars

(***************************************************************************)
(* Properties of main's loop and shutdown sequence                          *)
(***************************************************************************)
\* an iteration in which getFrame, processFrame or present failed
FrameError ==
    /\ mainOut'.op = "iteration"
    /\ \/ mainOut'.get \notin {"SUCCESS", "none"}
       \/ mainOut'.process \notin {"SUCCESS", "none"}
       \/ mainOut'.present \notin {"SUCCESS", "none"}

\* C25: an iteration of the loop in which acquiring, processing or presenting
\* the frame fails does not end the loop: the frame is not counted and main
\* stays in the loop for the next iteration
C25_FrameErrorKeepsLoop ==
    [][(main_pc = "loop" /\ g_running /\ FrameError) =>
          /\ main_pc' = "loop"
          /\ frame_count' = frame_count]_vars

\* present failed in an iteration after a frame had been presented, and main
\* is still in its loop
C25_Witness ==
    /\ main_pc = "loop"
    /\ g_running
    /\ mainOut.op = "iteration"
    /\ mainOut.present \in Failures
    /\ frame_count > 0

\* position of a call in the calls made so far, 0 if not made
CallIndex(call) ==
    IF \E i \in 1..Len(quiesced) : quiesced[i] = call
    THEN CHOOSE i \in 1..Len(quiesced) : quiesced[i] = call
    ELSE 0

\* C27: in the shutdown sequence capture.stop comes first and leaves the
\* capture's queue empty, the pipeline (GPU stage) and the display (presenter)
\* are shut down after it, and the receiver's monitoring thread is joined only
\* after those two
C27_ShutdownOrder ==
    /\ quiesced # <<>> => (quiesced[1] = "capture.stop" /\ capture_queued = 0)
    /\ CallIndex("receiver.shutdown") > 0 =>
          /\ CallIndex("pipeline.shutdown") > 0
          /\ CallIndex("display.shutdown") > 0

(***************************************************************************)
(* Properties of the display's mode                                         *)
(***************************************************************************)
\* C28: once shutdown() has closed a display that initialize had opened,
\* whatever setMode calls came between, the CRTC has the mode it had when
\* initialize was called
C28_ShutdownRestoresMode ==
    (dmOut.op = "shutdown" /\ dmOut.result = "SUCCESS") => crtc_mode = modeBefore

\* a display opened on an active CRTC was switched to another mode and shut
\* down, and the restoration took place
C28_Witness ==
    /\ dmOut.op = "shutdown"
    /\ dmOut.result = "SUCCESS"
    /\ dmOut.restored
    /\ modeBefore # NoMode
    /\ m_drm_mode # modeBefore

(***************************************************************************)
(* Properties of sync::MasterClock                                          *)
(***************************************************************************)
\* C29: the value of a now() is not below the value of the now() before it on
\* the same thread, whether the reads were served by CLOCK_MONOTONIC_RAW or by
\* the fallback
C29_NowMonotone ==
    (clockOut.op = "now" /\ clockOut.previous >= 0) => clockOut.value >= clockOut.previous

(***************************************************************************)
(* Properties of ReceiverControl's volume level                             *)
(***************************************************************************)
\* C30: whatever raw values the receiver sent and whatever max_volume was
\* configured, the level reported is raw_level * 100 / max_volume and lies
\* between 0 and 100
C30_LevelScaledAndBounded ==
    /\ m_volume_info.level =
          (m_volume_info.raw_level * 100) \div m_volume_info.max_volume
    /\ m_volume_info.level >= 0
    /\ m_volume_info.level <= 100

(***************************************************************************)
(* Properties of the tone-map stage                                         *)
(***************************************************************************)
\* C31: a processFrame on a frame whose HDR metadata type is NONE does not
\* call the tone mapper: the tone mapper's frames_processed keeps its value
\* and the frame passes stage 4 as it is
C31_SDRSkipsToneMap ==
    [][(ppOut'.op = "processFrame" /\ ppOut'.result # "ERROR_NOT_INITIALIZED"
          /\ ~ppOut'.is_hdr) =>
          /\ ~ppOut'.tone_mapped
          /\ tone_frames_processed' = tone_frames_processed]_vars

\* an SDR frame was delivered by a pipeline whose tone mapper had mapped an
\* HDR frame before
C31_Witness ==
    /\ ppOut.op = "processFrame"
    /\ ppOut.delivered
    /\ ~ppOut.is_hdr
    /\ ~ppOut.tone_mapped
    /\ tone_frames_processed > 0

(***************************************************************************)
(* Properties of FrameBuffer::push on a full buffer                         *)
(***************************************************************************)
\* C32: a push with drop_oldest_on_full = false on a buffer whose queue has
\* reached the capacity returns ERROR_OUT_OF_MEMORY and leaves the queue, the
\* retained last frame and the counters as they were
C32_FullPushRejected ==
    [][(fbOut'.op = "push" /\ ~fbOut'.drop /\ Len(m_queue) >= m_capacity) =>
          /\ fbOut'.result = "ERROR_OUT_OF_MEMORY"
          /\ UNCHANGED <<m_queue, m_has_last_frame, m_last_frame, m_stats>>]_vars

\* a push was refused by a full buffer of positive capacity that retains a
\* last frame
C32_Witness ==
    /\ fbOut.op = "push"
    /\ fbOut.result = "ERROR_OUT_OF_MEMORY"
    /\ m_capacity > 0
    /\ Len(m_queue) = m_capacity
    /\ m_has_last_frame

(***************************************************************************)
(* Properties of FrameBuffer under concurrent callers                       *)
(***************************************************************************)
\* C33: push, pop and getStats called from distinct threads never deadlock:
\* no two threads wait for a mutex the other one holds, so every call can
\* go on to its return
C33_NoDeadlock ==
    ~ \E t \in FBThreads, u \in FBThreads : t # u /\ WaitsFor(t, u) /\ WaitsFor(u, t)

(***************************************************************************)
(* Properties of DeckLinkCapture under the device callback                  *)
(***************************************************************************)
\* C34: the device callback running against getStats and getFrame of the
\* render thread never deadlocks: the two threads never wait for a mutex the
\* other one holds
C34_NoCaptureDeadlock ==
    ~ \E t \in CapThreads, u \in CapThreads :
          t # u /\ CapWaitsFor(t, u) /\ CapWaitsFor(u, t)

\* C37: once stop() has returned and until the next start(), the capture
\* queue is empty, whatever a device callback that raced with stop() does
C37_StoppedQueueEmpty ==
    (~m_running /\ cap_pc[RenderThread] # "stop_queue") => m_frame_queue = <<>>

(***************************************************************************)
(* Properties of the menu's navigation loops, hiding and integer items      *)
(***************************************************************************)
\* C35: UP and DOWN navigation terminates for every menu structure, a tab
\* without a visible and enabled item included: no call spins for ever
C35_NavigationTerminates == ~hung

\* C36: whenever the menu is hidden, adjusting_value is false, so that the
\* next show starts in Visible_Navigating
C36_HiddenNotAdjusting == ~m_visible => ~m_adjusting_value

\* C40: on an integer item LEFT never increases the value, RIGHT never
\* decreases it, and the value stays within [min, max]
C40_IntegerFollowsDirection ==
    [][(/\ PressWhileVisible
        /\ menuOut'.button \in {"LEFT", "RIGHT"}
        /\ m_adjusting_value
        /\ HasCurrentItem(m_menu, m_current_tab, m_current_item)
        /\ m_menu[m_current_tab + 1][m_current_item + 1].type = "INTEGER")
       => LET it == m_menu[m_current_tab + 1][m_current_item + 1]
              after == m_menu'[m_current_tab + 1][m_current_item + 1]
          IN  /\ menuOut'.button = "LEFT" => after.value <= it.value
              /\ menuOut'.button = "RIGHT" => after.value >= it.value
              /\ after.value >= it.min_value
              /\ after.value <= it.max_value]_vars

(***************************************************************************)
(* Properties of the receiver's monitor thread                              *)
(***************************************************************************)
\* C38: after every successful initialize(), a re-initialize after shutdown()
\* included, and after every setMonitoringEnabled call the monitor thread is
\* running if and only if monitoring is enabled and the adapter is connected
C38_MonitorRunsIffEnabledAndConnected ==
    (\/ monOut.op = "setMonitoringEnabled"
     \/ monOut.op = "initialize" /\ monOut.result = "SUCCESS")
    => (m_monitor_running <=> (m_monitoring_enabled /\ rc_connected))

(***************************************************************************)
(* Properties of DRMDisplay::initialize's failure paths                     *)
(***************************************************************************)
\* C39: when initialize fails, at whatever step, the device descriptor is
\* closed, no connector, encoder, CRTC or resources object is held any more,
\* and the display is not initialized
C39_FailedInitializeReleases ==
    (dmOut.op = "initialize" /\ dmOut.result # "SUCCESS") =>
        /\ m_drm_fd = -1
        /\ drm_objects = {}
        /\ ~display_open

====
